---- MODULE Spec2Model ----
(***************************************************************************)
(* State-machine model of the dashcam manager's transfer engine.           *)
(*                                                                         *)
(*   DownloadManager  src/src/services/download_manager.py                 *)
(*   VideoGrid        src/dashcam_python/src/ui/video_grid.py              *)
(*   ConnectionManager src/src/services/connection_manager.py             *)
(*   CacheManager     src/dashcam_python/src/services/cache_manager.py     *)
(*                                                                         *)
(* Threads of the download manager: one caller thread (the UI thread that  *)
(* calls add_to_queue, remove_from_queue, pause_task, resume_task and      *)
(* clear_completed), the coordinator thread running _process_queue, and    *)
(* the pool threads running _download_video.  A step of the model is one   *)
(* block of statements of one thread; blocks that the code runs outside    *)
(* queue_lock interleave freely with the other threads.                    *)
(***************************************************************************)
EXTENDS Integers, Sequences, FiniteSets, TLC

\* ---------------------------------------------------------------- bounds
MaxTasks == 3
MaxParallel == 2
NumFiles == 1
MaxChunks == 2
MaxOps == 3
NumPaths == 2
MaxJobs == 3
MaxBatches == 2
MaxConnOps == 3
MaxSavers == 2
MaxClock == 1

\* ------------------------------------------------------- program constants
max_retries == 3
\* byte counts are kept in KiB
KiB == 1024
\* chunk_size = 8192 * 16
chunk_size == (8192 * 16) \div KiB
\* estimated_total = 50 * 1024 * 1024
estimated_total == (50 * 1024 * KiB) \div KiB
\* progress is a float percentage in the code; the model keeps it in
\* hundredths of a percent, so 100.0 is 10000 and the 95.0 ceiling is 9500.
ProgressUnit == 100
ProgressCeiling == 95 * ProgressUnit
ProgressFull == 100 * ProgressUnit

TaskIds == 1..MaxTasks
Videos == [dir : {"norm"}, filename : 1..NumFiles]
LocalPath(video) == <<"download_dir", video.filename>>
LocalPaths == {LocalPath(v) : v \in Videos}

NoError == [attempts |-> 0, cause |-> "none"]
\* f"Failed after {max_retries} attempts: {str(e)}"
FailedAfterMsg(e) == [attempts |-> max_retries, cause |-> e]
\* str(e)
StrExc(e) == [attempts |-> 0, cause |-> e]

Min(a, b) == IF a <= b THEN a ELSE b

\* A step that returns nothing, invokes no sink and calls no device API
Quiet == [op |-> "none", task |-> 0, ret |-> "none", num |-> 0,
          on_complete |-> 0, on_progress |-> 0, api |-> 0, raised |-> "none",
          sink_raised |-> FALSE]
\* operation op on task t returns a boolean / a number
RetBool(op, t, b) == [Quiet EXCEPT !.op = op, !.task = t,
                                   !.ret = IF b THEN "true" ELSE "false"]
RetNum(op, t, n) == [Quiet EXCEPT !.op = op, !.task = t, !.ret = "num", !.num = n]

VARIABLES
    tasks,          \* every DownloadTask created so far, by task id
    queue,          \* DownloadManager.queue: sequence of task ids
    queue_lock,     \* "free", "coord" or "caller"; a locked block of the caller
                    \* is one step, but for clear_completed
    disk,           \* local path -> "none" | "partial" | "full"
    cpc,            \* coordinator position in _process_queue
    tasks_to_start, \* _get_next_tasks: the slice being marked / returned
    midx,           \* _get_next_tasks: index of the next task to mark
    futures,        \* _process_queue: tasks submitted and not yet reaped
    wpc,            \* per task: position of the pool thread running it
    attempt,        \* per task: loop variable of _download_video
    downloaded,     \* per task: KiB written in the current attempt
    exc,            \* per task: the exception in flight
    clpc,           \* caller position
    clarg,          \* caller: task id the operation in progress is about;
                    \* in clear_completed the state of its comprehension
    ops,            \* number of caller operations started
    out,            \* what the last step did to the outside: the value an
                    \* operation returned, the sink it invoked, the Device
                    \* Client call it made
    stop_workers,   \* the Event _stop_workers: TRUE when set
    executor,       \* _executor: "running", "shutdown" (shut down, still
                    \* referenced) or "none"
    worker_thread   \* _worker_thread: "thread" or "none"

VARIABLES
    loading_batch_id, \* VideoGrid.loading_batch_id
    jobs,             \* every _load_thumbnail_async call submitted so far
    thumb_cache,      \* CacheManager: device path -> cached blob, if any
    gpc,              \* main thread position in load_videos
    gpending,         \* load_videos: the records still to be submitted
    returned_batch,   \* batch id of the last load_videos that has returned
    gout,             \* what the last step published to the display
    grid_api          \* VideoGrid.api: "none" or "client"

VARIABLES
    cm_api,            \* ConnectionManager.api: "none" or "client"
    is_connected,      \* ConnectionManager.is_connected
    stop_monitoring,   \* the Event _stop_monitoring: TRUE when set
    monitor_thread,    \* _monitor_thread: "none", "thread" or "thread2"
    auto_reconnect,    \* _auto_reconnect
    mpc,               \* position of the prober thread in _monitor_connection
    mpc2,              \* position of a second prober thread, started while the
                       \* first was still alive
    kpc,               \* per thread: position in connect()
    dpc,               \* position of the caller thread
    conn_ops,          \* number of caller operations started
    disconnected,      \* disconnect() has returned and connect() was not called since
    cout               \* what the last step did to the outside: the status
                       \* notification it sent, the device call it made, the
                       \* value it returned

VARIABLES
    thumbnail_dir,     \* CacheManager.thumbnail_dir: cache key -> the file <key>.jpg
    metadata,          \* CacheManager.metadata: cache key -> index entry
    now,               \* datetime.now(), in days
    spc,               \* per pool thread: position in save_thumbnail
    last_saved,        \* per path: the blob of the last save_thumbnail that
                       \* returned True, while nothing has touched the path since
    cache_out          \* what the last cache call returned

cacheVars == <<thumbnail_dir, metadata, now, spc, last_saved, cache_out>>

VARIABLES
    fn_path,           \* VideoFile.from_filename: the path it is given
    fn_out             \* what the call produced: nothing yet, a record or ValueError

parseVars == <<fn_path, fn_out>>

connVars == <<cm_api, is_connected, stop_monitoring, monitor_thread, auto_reconnect,
              mpc, mpc2, kpc, dpc, conn_ops, disconnected, cout>>

gridVars == <<loading_batch_id, jobs, thumb_cache, gpc, gpending, returned_batch, gout,
              grid_api>>

\* what start() set up and stop() takes down
runVars == <<stop_workers, executor, worker_thread>>

dmVars == <<tasks, queue, queue_lock, disk, cpc, tasks_to_start, midx, futures,
            wpc, attempt, downloaded, exc, clpc, clarg, ops, out, runVars>>

vars == <<dmVars, gridVars, connVars, cacheVars, parseVars>>

Created == 1..Len(tasks)
InQueue(t) == \E i \in 1..Len(queue) : queue[i] = t
Status(t) == tasks[t].status
SetTask(t, field, val) == [tasks EXCEPT ![t] = [@ EXCEPT ![field] = val]]
Downloading == {t \in Created : tasks[t].status = "downloading"}

Running == {t \in TaskIds : wpc[t] \in {"fetch", "stream", "mark", "fail"}}

InitDM ==
    /\ tasks = <<>>
    /\ queue = <<>>
    /\ queue_lock = "free"
    /\ disk = [p \in LocalPaths |-> "none"]
    /\ cpc = "loop"
    /\ tasks_to_start = <<>>
    /\ midx = 1
    /\ futures = {}
    /\ wpc = [t \in TaskIds |-> "idle"]
    /\ attempt = [t \in TaskIds |-> 0]
    /\ downloaded = [t \in TaskIds |-> 0]
    /\ exc = [t \in TaskIds |-> "none"]
    /\ clpc = "idle"
    /\ clarg = 0
    /\ ops = 0
    /\ out = Quiet
    /\ stop_workers = FALSE
    /\ executor = "running"
    /\ worker_thread = "thread"

\* ------------------------------------------------------------------------
\* Caller thread
\* ------------------------------------------------------------------------
\* DownloadTask(file, status, progress, speed_mbps=0.0, local_path); error
\* defaults to None.  speed_mbps is 0 or a measured positive value; a measured
\* value is represented by the id of the task it was measured for.
NewTask(video, st, pr) ==
    [file |-> video, status |-> st, progress |-> pr, speed_mbps |-> 0,
     error |-> NoError, local_path |-> LocalPath(video)]

\* an existence test that always succeeds
ExistsAlways(path) == TRUE

\* Path(task.local_path).exists()
Exists(path) == disk[path] # "none"

\* lines 112-113 without the progress assignment
BornCompletedNoProgress(task) == [task EXCEPT !.status = "completed"]

\* lines 112-113: task.status = "completed"; task.progress = 100.0
BornCompleted(task) == [task EXCEPT !.status = "completed", !.progress = ProgressFull]

\* add_to_queue.  The existence test and the locked append are one step: the
\* task is not yet visible to any other thread between them.
AddToQueue(video) ==
    /\ clpc = "idle"
    /\ ops < MaxOps
    /\ Len(tasks) < MaxTasks
    /\ LET n == Len(tasks) + 1 IN
        IF Exists(LocalPath(video))
          THEN /\ tasks' = Append(tasks, BornCompleted(NewTask(video, "queued", 0)))
               /\ out' = [RetNum("add", n, n) EXCEPT !.on_complete = n]
               /\ UNCHANGED queue
          ELSE /\ queue_lock = "free"
               /\ tasks' = Append(tasks, NewTask(video, "queued", 0))
               /\ queue' = Append(queue, n)
               /\ out' = RetNum("add", n, n)
    /\ ops' = ops + 1
    /\ UNCHANGED <<queue_lock, disk, cpc, tasks_to_start, midx, futures,
                   wpc, attempt, downloaded, exc, clpc, clarg>>
    /\ UNCHANGED runVars
    /\ UNCHANGED gridVars
    /\ UNCHANGED <<connVars, cacheVars, parseVars>>

\* the test of line 149 left out
RemoveNeverRejected(st) == FALSE

\* remove_from_queue, the unlocked test of line 149
RemoveRejected(st) == st = "downloading"

RemoveCheck(t) ==
    /\ clpc = "idle"
    /\ ops < MaxOps
    /\ t \in Created
    /\ IF RemoveRejected(Status(t))
          THEN /\ out' = RetBool("remove", t, FALSE)
               /\ UNCHANGED <<clpc, clarg>>
          ELSE /\ clpc' = "remove_locked"
               /\ clarg' = t
               /\ out' = Quiet
    /\ ops' = ops + 1
    /\ UNCHANGED <<tasks, queue, queue_lock, disk, cpc, tasks_to_start, midx,
                   futures, wpc, attempt, downloaded, exc>>
    /\ UNCHANGED runVars
    /\ UNCHANGED gridVars
    /\ UNCHANGED <<connVars, cacheVars, parseVars>>

\* `task in self.queue` and `self.queue.remove(task)` compare with the
\* dataclass __eq__ of DownloadTask, field by field: the positions of the
\* queue holding a task equal to t
EqualAt(t) == {i \in 1..Len(queue) : tasks[queue[i]] = tasks[t]}
FirstOf(S) == CHOOSE i \in S : \A j \in S : i <= j
DropAt(q, i) == SubSeq(q, 1, i - 1) \o SubSeq(q, i + 1, Len(q))

\* remove_from_queue, the locked block of lines 153-159
RemoveLocked ==
    /\ clpc = "remove_locked"
    /\ queue_lock = "free"
    /\ IF EqualAt(clarg) # {}
          THEN /\ queue' = DropAt(queue, FirstOf(EqualAt(clarg)))
               /\ out' = RetBool("remove", clarg, TRUE)
          ELSE /\ UNCHANGED queue
               /\ out' = RetBool("remove", clarg, FALSE)
    /\ clpc' = "idle"
    /\ clarg' = 0
    /\ UNCHANGED <<tasks, queue_lock, disk, cpc, tasks_to_start, midx,
                   futures, wpc, attempt, downloaded, exc, ops>>
    /\ UNCHANGED runVars
    /\ UNCHANGED gridVars
    /\ UNCHANGED <<connVars, cacheVars, parseVars>>

\* pause_task: the test of line 172
PauseCheck(t) ==
    /\ clpc = "idle"
    /\ ops < MaxOps
    /\ t \in Created
    /\ IF Status(t) = "queued"
          THEN /\ clpc' = "pause_write"
               /\ clarg' = t
               /\ out' = Quiet
          ELSE /\ out' = RetBool("pause", t, FALSE)
               /\ UNCHANGED <<clpc, clarg>>
    /\ ops' = ops + 1
    /\ UNCHANGED <<tasks, queue, queue_lock, disk, cpc, tasks_to_start, midx,
                   futures, wpc, attempt, downloaded, exc>>
    /\ UNCHANGED runVars
    /\ UNCHANGED gridVars
    /\ UNCHANGED <<connVars, cacheVars, parseVars>>

\* pause_task: the assignment of line 173 and the return
PauseWrite ==
    /\ clpc = "pause_write"
    /\ tasks' = SetTask(clarg, "status", "paused")
    /\ out' = RetBool("pause", clarg, TRUE)
    /\ clpc' = "idle"
    /\ clarg' = 0
    /\ UNCHANGED <<queue, queue_lock, disk, cpc, tasks_to_start, midx,
                   futures, wpc, attempt, downloaded, exc, ops>>
    /\ UNCHANGED runVars
    /\ UNCHANGED gridVars
    /\ UNCHANGED <<connVars, cacheVars, parseVars>>

\* resume_task: the test of line 187
ResumeCheck(t) ==
    /\ clpc = "idle"
    /\ ops < MaxOps
    /\ t \in Created
    /\ IF Status(t) = "paused"
          THEN /\ clpc' = "resume_write"
               /\ clarg' = t
               /\ out' = Quiet
          ELSE /\ out' = RetBool("resume", t, FALSE)
               /\ UNCHANGED <<clpc, clarg>>
    /\ ops' = ops + 1
    /\ UNCHANGED <<tasks, queue, queue_lock, disk, cpc, tasks_to_start, midx,
                   futures, wpc, attempt, downloaded, exc>>
    /\ UNCHANGED runVars
    /\ UNCHANGED gridVars
    /\ UNCHANGED <<connVars, cacheVars, parseVars>>

\* resume_task: the assignment of line 188 and the return
ResumeWrite ==
    /\ clpc = "resume_write"
    /\ tasks' = SetTask(clarg, "status", "queued")
    /\ out' = RetBool("resume", clarg, TRUE)
    /\ clpc' = "idle"
    /\ clarg' = 0
    /\ UNCHANGED <<queue, queue_lock, disk, cpc, tasks_to_start, midx,
                   futures, wpc, attempt, downloaded, exc, ops>>
    /\ UNCHANGED runVars
    /\ UNCHANGED gridVars
    /\ UNCHANGED <<connVars, cacheVars, parseVars>>

\* DownloadTask.is_complete
is_complete(task) == task.status = "completed"

\* an is_active that counts every task that has not ended
is_active_until_ended(task) == task.status \notin {"completed", "failed"}

\* DownloadTask.is_active
is_active(task) == task.status \in {"queued", "downloading"}

\* DownloadTask.has_failed
has_failed(task) == task.status = "failed"

\* the tasks that read as completed right now
Completed == {t \in Created : is_complete(tasks[t])}

\* clear_completed, lines 199-200: take queue_lock, before = len(self.queue)
ClearBegin ==
    /\ clpc = "idle"
    /\ ops < MaxOps
    /\ queue_lock = "free"
    /\ queue_lock' = "caller"
    /\ clpc' = "clear"
    /\ clarg' = [i |-> 1, kept |-> <<>>, prev |-> Completed]
    /\ out' = Quiet
    /\ ops' = ops + 1
    /\ UNCHANGED <<tasks, queue, disk, cpc, tasks_to_start, midx,
                   futures, wpc, attempt, downloaded, exc>>
    /\ UNCHANGED runVars
    /\ UNCHANGED gridVars
    /\ UNCHANGED <<connVars, cacheVars, parseVars>>

\* line 201, one turn of the comprehension: t.is_complete() is read for the
\* next element while the pool threads, which do not take queue_lock, go on
\* writing status; prev is what read as completed at this turn
ClearScan ==
    /\ clpc = "clear"
    /\ clarg.i <= Len(queue)
    /\ clarg' = [i |-> clarg.i + 1,
                 kept |-> IF is_complete(tasks[queue[clarg.i]])
                            THEN clarg.kept
                            ELSE Append(clarg.kept, queue[clarg.i]),
                 prev |-> Completed]
    /\ out' = Quiet
    /\ UNCHANGED <<tasks, queue, queue_lock, disk, cpc, tasks_to_start, midx,
                   futures, wpc, attempt, downloaded, exc, clpc, ops>>
    /\ UNCHANGED runVars
    /\ UNCHANGED gridVars
    /\ UNCHANGED <<connVars, cacheVars, parseVars>>

\* lines 201-205: self.queue = [...], removed = before - len(self.queue),
\* release queue_lock, return removed
ClearCompleted ==
    /\ clpc = "clear"
    /\ clarg.i > Len(queue)
    /\ queue' = clarg.kept
    /\ out' = RetNum("clear", 0, Len(queue) - Len(clarg.kept))
    /\ queue_lock' = "free"
    /\ clpc' = "idle"
    /\ clarg' = 0
    /\ UNCHANGED <<tasks, disk, cpc, tasks_to_start, midx,
                   futures, wpc, attempt, downloaded, exc, ops>>
    /\ UNCHANGED runVars
    /\ UNCHANGED gridVars
    /\ UNCHANGED <<connVars, cacheVars, parseVars>>

\* ------------------------------------------------------------------------
\* Coordinator thread: _process_queue and _get_next_tasks
\* ------------------------------------------------------------------------
\* stop(): `if not self._worker_thread: return`, else self._stop_workers.set()
StopSet ==
    /\ clpc = "idle"
    /\ ops < MaxOps
    /\ IF worker_thread = "none"
          THEN /\ out' = RetBool("stop", 0, TRUE)
               /\ UNCHANGED <<clpc, stop_workers>>
          ELSE /\ stop_workers' = TRUE
               /\ clpc' = "stop_shutdown"
               /\ out' = Quiet
    /\ ops' = ops + 1
    /\ UNCHANGED <<tasks, queue, queue_lock, disk, cpc, tasks_to_start, midx,
                   futures, wpc, attempt, downloaded, exc, clarg, executor,
                   worker_thread>>
    /\ UNCHANGED gridVars
    /\ UNCHANGED <<connVars, cacheVars, parseVars>>

\* self._executor.shutdown(wait=True), first half: the executor accepts no
\* further submit
StopShutdown ==
    /\ clpc = "stop_shutdown"
    /\ executor' = "shutdown"
    /\ clpc' = "stop_wait"
    /\ out' = Quiet
    /\ UNCHANGED <<tasks, queue, queue_lock, disk, cpc, tasks_to_start, midx,
                   futures, wpc, attempt, downloaded, exc, clarg, ops,
                   stop_workers, worker_thread>>
    /\ UNCHANGED gridVars
    /\ UNCHANGED <<connVars, cacheVars, parseVars>>

\* shutdown(wait=True), second half: it returns once every pool thread has
\* finished its call; then self._executor = None
StopWait ==
    /\ clpc = "stop_wait"
    /\ Running = {}
    /\ executor' = "none"
    /\ clpc' = "stop_join"
    /\ out' = Quiet
    /\ UNCHANGED <<tasks, queue, queue_lock, disk, cpc, tasks_to_start, midx,
                   futures, wpc, attempt, downloaded, exc, clarg, ops,
                   stop_workers, worker_thread>>
    /\ UNCHANGED gridVars
    /\ UNCHANGED <<connVars, cacheVars, parseVars>>

\* the coordinator thread has left _process_queue
CoordinatorEnded == cpc \in {"exit", "dead"}

\* `if self._worker_thread.is_alive(): self._worker_thread.join(timeout=5.0)`
\* returns when the thread has ended or when the 5 seconds are over, then
\* self._worker_thread = None and stop() returns
StopJoin(expired) ==
    /\ clpc = "stop_join"
    /\ CoordinatorEnded \/ expired
    /\ worker_thread' = "none"
    /\ clpc' = "idle"
    /\ out' = RetBool("stop", 0, TRUE)
    /\ UNCHANGED <<tasks, queue, queue_lock, disk, cpc, tasks_to_start, midx,
                   futures, wpc, attempt, downloaded, exc, clarg, ops,
                   stop_workers, executor>>
    /\ UNCHANGED gridVars
    /\ UNCHANGED <<connVars, cacheVars, parseVars>>

\* start(): nothing when the coordinator thread is referenced and alive
\* (lines 58-60); else clear the event, create an executor and a coordinator
\* thread, which stands at the top of _process_queue with fresh locals.  The
\* model follows one coordinator thread: start() is not called while a
\* coordinator that stop() gave up joining is still alive.
Start ==
    /\ clpc = "idle"
    /\ ops < MaxOps
    /\ worker_thread = "none" => CoordinatorEnded
    /\ ops' = ops + 1
    /\ IF worker_thread = "thread" /\ ~CoordinatorEnded
          THEN UNCHANGED <<stop_workers, executor, worker_thread, cpc,
                           tasks_to_start, midx, futures>>
          ELSE /\ stop_workers' = FALSE
               /\ executor' = "running"
               /\ worker_thread' = "thread"
               /\ cpc' = "loop"
               /\ tasks_to_start' = <<>>
               /\ midx' = 1
               /\ futures' = {}
    /\ out' = [Quiet EXCEPT !.op = "start"]
    /\ UNCHANGED <<tasks, queue, queue_lock, disk, wpc, attempt, downloaded, exc,
                   clpc, clarg>>
    /\ UNCHANGED gridVars
    /\ UNCHANGED <<connVars, cacheVars, parseVars>>

Range(s) == {s[i] : i \in 1..Len(s)}

\* available = [t for t in self.queue if t.status == "queued"]
Available == SelectSeq(queue, LAMBDA t : tasks[t].status = "queued")

\* downloading = sum(1 for t in self.queue if t.status == "downloading")
DownloadingInQueue ==
    Cardinality({i \in 1..Len(queue) : tasks[queue[i]].status = "downloading"})

\* a slot count that is off by one
SlotsAvailableOffByOne(n) == MaxParallel + 1 - n

\* a coordinator that never finds a free slot
SlotsAvailableNever(n) == 0

\* slots_available = self.max_parallel - downloading
SlotsAvailable(n) == MaxParallel - n

\* available[:slots_available], after the slots_available <= 0 early return
TasksToStart ==
    LET slots == SlotsAvailable(DownloadingInQueue)
    IN IF slots <= 0 THEN <<>> ELSE SubSeq(Available, 1, Min(slots, Len(Available)))

\* _get_next_tasks found something: the lock stays held while it marks
\* while not self._stop_workers.is_set()
LoopCheck ==
    /\ cpc = "loop"
    /\ cpc' = IF stop_workers THEN "exit" ELSE "get"
    /\ out' = Quiet
    /\ UNCHANGED <<tasks, queue, queue_lock, disk, tasks_to_start, midx, futures,
                   wpc, attempt, downloaded, exc, clpc, clarg, ops>>
    /\ UNCHANGED runVars
    /\ UNCHANGED gridVars
    /\ UNCHANGED <<connVars, cacheVars, parseVars>>

GetNextTasks ==
    /\ cpc = "get"
    /\ queue_lock = "free"
    /\ TasksToStart # <<>>
    /\ tasks_to_start' = TasksToStart
    /\ midx' = 1
    /\ queue_lock' = "coord"
    /\ cpc' = "mark"
    /\ out' = Quiet
    /\ UNCHANGED <<tasks, queue, disk, futures, wpc, attempt, downloaded, exc,
                   clpc, clarg, ops>>
    /\ UNCHANGED runVars
    /\ UNCHANGED gridVars
    /\ UNCHANGED <<connVars, cacheVars, parseVars>>

\* _get_next_tasks returned []: time.sleep(0.5); continue
CoordSleep ==
    /\ cpc = "get"
    /\ queue_lock = "free"
    /\ TasksToStart = <<>>
    /\ cpc' = "loop"
    /\ out' = Quiet
    /\ UNCHANGED <<tasks, queue, queue_lock, disk, tasks_to_start, midx, futures,
                   wpc, attempt, downloaded, exc, clpc, clarg, ops>>
    /\ UNCHANGED runVars
    /\ UNCHANGED gridVars
    /\ UNCHANGED <<connVars, cacheVars, parseVars>>

\* for task in tasks_to_start: task.status = "downloading" (one iteration);
\* the last iteration also returns and releases the lock
MarkDownloading ==
    /\ cpc = "mark"
    /\ tasks' = SetTask(tasks_to_start[midx], "status", "downloading")
    /\ IF midx < Len(tasks_to_start)
          THEN /\ midx' = midx + 1
               /\ UNCHANGED <<cpc, queue_lock>>
          ELSE /\ midx' = 1
               /\ cpc' = "submit"
               /\ queue_lock' = "free"
    /\ out' = Quiet
    /\ UNCHANGED <<queue, disk, tasks_to_start, futures, wpc, attempt, downloaded,
                   exc, clpc, clarg, ops>>
    /\ UNCHANGED runVars
    /\ UNCHANGED gridVars
    /\ UNCHANGED <<connVars, cacheVars, parseVars>>

\* for task in tasks_to_download: self._executor.submit(...).  The batch is
\* never larger than the pool (max_workers = max_parallel) and the previous
\* batch has been reaped, so every submitted call gets a pool thread, which
\* stands at the first statement of _download_video with attempt = 0.
Submit ==
    /\ cpc = "submit"
    /\ executor = "running"
    /\ wpc' = [t \in TaskIds |-> IF t \in Range(tasks_to_start) THEN "fetch" ELSE wpc[t]]
    /\ futures' = Range(tasks_to_start)
    /\ tasks_to_start' = <<>>
    /\ cpc' = "wait"
    /\ out' = Quiet
    /\ UNCHANGED <<tasks, queue, queue_lock, disk, midx, attempt, downloaded, exc,
                   clpc, clarg, ops>>
    /\ UNCHANGED runVars
    /\ UNCHANGED gridVars
    /\ UNCHANGED <<connVars, cacheVars, parseVars>>

\* self._executor.submit on an executor that stop() shut down (RuntimeError)
\* or set to None (AttributeError): nothing in _process_queue catches it and
\* the coordinator thread ends
SubmitRaises ==
    /\ cpc = "submit"
    /\ executor # "running"
    /\ cpc' = "dead"
    /\ out' = Quiet
    /\ UNCHANGED <<tasks, queue, queue_lock, disk, tasks_to_start, midx, futures,
                   wpc, attempt, downloaded, exc, clpc, clarg, ops>>
    /\ UNCHANGED runVars
    /\ UNCHANGED gridVars
    /\ UNCHANGED <<connVars, cacheVars, parseVars>>

\* the except clause of lines 253-256
ReapFailed(task, e) == [task EXCEPT !.status = "failed", !.error = StrExc(e)]

\* one iteration of `for future in as_completed(futures)`: the result of
\* the future, then the completion sink inside try/except (lines 259-263)
Reap(t, raised) ==
    /\ cpc = "wait"
    /\ t \in futures
    /\ wpc[t] \in {"done_ok", "done_exc"}
    /\ tasks' = IF wpc[t] = "done_exc"
                  THEN [tasks EXCEPT ![t] = ReapFailed(@, exc[t])]
                  ELSE tasks
    /\ out' = [Quiet EXCEPT !.on_complete = t, !.sink_raised = raised]
    /\ wpc' = [wpc EXCEPT ![t] = "idle"]
    /\ exc' = [exc EXCEPT ![t] = "none"]
    /\ attempt' = [attempt EXCEPT ![t] = 0]
    /\ downloaded' = [downloaded EXCEPT ![t] = 0]
    /\ futures' = futures \ {t}
    /\ cpc' = IF futures = {t} THEN "loop" ELSE "wait"
    /\ UNCHANGED <<queue, queue_lock, disk, tasks_to_start, midx, clpc, clarg, ops>>
    /\ UNCHANGED runVars
    /\ UNCHANGED gridVars
    /\ UNCHANGED <<connVars, cacheVars, parseVars>>

\* ------------------------------------------------------------------------
\* Pool threads: _download_video and _download_video_attempt
\* ------------------------------------------------------------------------
\* if attempt < max_retries - 1
RetryAllowed(a) == a < max_retries - 1

\* lines 318-319 of the last attempt: status and error
FinalFailure(task, e) == [task EXCEPT !.status = "failed", !.error = FailedAfterMsg(e)]

\* The except clause of _download_video, entered by exception e raised out
\* of the attempt.  Raising, catching, logging and the 2 s sleep change
\* nothing another thread can see, so they are part of the step that raised;
\* that step reports the exception it raised in out.raised.
\* Not the last attempt: sleep and loop.  Last attempt: status and error.
Caught(t, e) ==
    IF RetryAllowed(attempt[t])
      THEN /\ attempt' = [attempt EXCEPT ![t] = @ + 1]
           /\ wpc' = [wpc EXCEPT ![t] = "fetch"]
           /\ UNCHANGED <<tasks, exc>>
      ELSE /\ tasks' = [tasks EXCEPT ![t] = FinalFailure(@, e)]
           /\ wpc' = [wpc EXCEPT ![t] = "fail"]
           /\ exc' = [exc EXCEPT ![t] = e]
           /\ UNCHANGED attempt

\* response = self.api.get_video_file(task.file.path, stream=True) and
\* open(task.local_path, 'wb').  The call raises, or returns the response
\* object (DashcamAPI.get_video_file returns the streaming response whenever
\* stream is true, so the bytes branch of lines 334-347 is never taken with
\* this client); then open raises, or creates or truncates the file.
Fetch(t) ==
    /\ wpc[t] = "fetch"
    /\ \/ /\ Caught(t, "transport")
          /\ out' = [Quiet EXCEPT !.api = t, !.raised = "transport"]
          /\ UNCHANGED <<disk, downloaded>>
       \/ /\ Caught(t, "disk")
          /\ out' = [Quiet EXCEPT !.api = t, !.raised = "disk"]
          /\ UNCHANGED <<disk, downloaded>>
       \/ /\ disk' = [disk EXCEPT ![tasks[t].local_path] = "partial"]
          /\ downloaded' = [downloaded EXCEPT ![t] = 0]
          /\ wpc' = [wpc EXCEPT ![t] = "stream"]
          /\ out' = [Quiet EXCEPT !.api = t]
          /\ UNCHANGED <<tasks, attempt, exc>>
    /\ UNCHANGED <<queue, queue_lock, cpc, tasks_to_start, midx, futures,
                   clpc, clarg, ops>>
    /\ UNCHANGED runVars
    /\ UNCHANGED gridVars
    /\ UNCHANGED <<connVars, cacheVars, parseVars>>

\* min(95.0, (downloaded / estimated_total) * 100), in hundredths of a percent
StreamProgress(bytes) ==
    Min(ProgressCeiling, (bytes * 100 * ProgressUnit) \div estimated_total)

\* one iteration of `for chunk in response.iter_content(...)` with a
\* non-empty chunk: write, count, speed, progress, progress sink
WriteChunk(t) ==
    /\ wpc[t] = "stream"
    /\ downloaded[t] < MaxChunks * chunk_size
    /\ LET bytes == downloaded[t] + chunk_size IN
        /\ downloaded' = [downloaded EXCEPT ![t] = bytes]
        /\ tasks' = [tasks EXCEPT ![t] = [@ EXCEPT !.speed_mbps = t,
                                                   !.progress = StreamProgress(bytes)]]
    /\ out' = [Quiet EXCEPT !.on_progress = t]
    /\ UNCHANGED <<queue, queue_lock, disk, cpc, tasks_to_start, midx, futures, wpc,
                   attempt, exc, clpc, clarg, ops>>
    /\ UNCHANGED runVars
    /\ UNCHANGED gridVars
    /\ UNCHANGED <<connVars, cacheVars, parseVars>>

\* the stream breaks or a write fails inside the loop: the exception leaves
\* the with block, which closes the file as far as it was written
StreamError(t) ==
    /\ wpc[t] = "stream"
    /\ \E e \in {"transport", "disk"} :
           /\ Caught(t, e)
           /\ out' = [Quiet EXCEPT !.raised = e]
    /\ UNCHANGED <<queue, queue_lock, disk, cpc, tasks_to_start, midx, futures,
                   downloaded, clpc, clarg, ops>>
    /\ UNCHANGED runVars
    /\ UNCHANGED gridVars
    /\ UNCHANGED <<connVars, cacheVars, parseVars>>

\* speed after the final stats of lines 378-380: 0 if nothing was received
FinalSpeed(t) == IF downloaded[t] > 0 THEN t ELSE 0

\* the iterator is exhausted: file closed, final stats, progress = 100.0
StreamEnd(t) ==
    /\ wpc[t] = "stream"
    /\ disk' = [disk EXCEPT ![tasks[t].local_path] = "full"]
    /\ tasks' = [tasks EXCEPT ![t] = [@ EXCEPT !.speed_mbps = FinalSpeed(t),
                                               !.progress = ProgressFull]]
    /\ wpc' = [wpc EXCEPT ![t] = "mark"]
    /\ out' = Quiet
    /\ UNCHANGED <<queue, queue_lock, cpc, tasks_to_start, midx, futures, attempt,
                   downloaded, exc, clpc, clarg, ops>>
    /\ UNCHANGED runVars
    /\ UNCHANGED gridVars
    /\ UNCHANGED <<connVars, cacheVars, parseVars>>

\* task.status = "completed", then both functions return
MarkCompleted(t) ==
    /\ wpc[t] = "mark"
    /\ tasks' = SetTask(t, "status", "completed")
    /\ wpc' = [wpc EXCEPT ![t] = "done_ok"]
    /\ out' = Quiet
    /\ UNCHANGED <<queue, queue_lock, disk, cpc, tasks_to_start, midx, futures, attempt,
                   downloaded, exc, clpc, clarg, ops>>
    /\ UNCHANGED runVars
    /\ UNCHANGED gridVars
    /\ UNCHANGED <<connVars, cacheVars, parseVars>>

\* lines 320-321 of the last attempt: task.progress = 0.0; raise
ResetAndRaise(t) ==
    /\ wpc[t] = "fail"
    /\ tasks' = SetTask(t, "progress", 0)
    /\ wpc' = [wpc EXCEPT ![t] = "done_exc"]
    /\ out' = Quiet
    /\ UNCHANGED <<queue, queue_lock, disk, cpc, tasks_to_start, midx, futures, attempt,
                   downloaded, exc, clpc, clarg, ops>>
    /\ UNCHANGED runVars
    /\ UNCHANGED gridVars
    /\ UNCHANGED <<connVars, cacheVars, parseVars>>

\* ------------------------------------------------------------------------
\* VideoGrid: load_videos on the main thread, _load_thumbnail_async on the
\* pool threads of ThreadPoolExecutor(max_workers=3)
\* ------------------------------------------------------------------------
max_workers == 3

GridPaths == 1..NumPaths

\* blobs the device or the cache can hand out, as byte sequences
Jpeg == <<255, 216, 0>>
Html == <<60, 33, 0>>
TsVideo == <<71, 64, 0>>
Empty == <<>>
ApiBlobs == {Jpeg, Html, TsVideo, Empty}

\* a validation that looks at the length only
IsJpegByLength(data) == Len(data) >= 2

\* len(data) >= 2 and data[:2] == b'\xff\xd8'
IsJpeg(data) == Len(data) >= 2 /\ data[1] = 255 /\ data[2] = 216

NoEntry == [present |-> FALSE, blob |-> Empty]
Entry(data) == [present |-> TRUE, blob |-> data]

NoPublish == [kind |-> "none", batch |-> 0, job |-> 0]
\* GLib.idle_add(thumbnail.set_thumbnail_data, data) / (thumbnail._show_error)
Publish(kind, j) == [kind |-> kind, batch |-> jobs[j].batch, job |-> j]

\* the grid after __init__, over a cache directory holding the blobs `cache`
GridConstructed(cache) ==
    /\ loading_batch_id = 0
    /\ jobs = <<>>
    /\ thumb_cache = cache
    /\ gpc = "idle"
    /\ gpending = <<>>
    /\ returned_batch = 0
    /\ gout = NoPublish
    /\ grid_api = "none"

\* a fresh cache directory
InitGrid == GridConstructed([p \in GridPaths |-> NoEntry])

\* a cache directory left behind by earlier runs: valid and invalid blobs
InitGridCached ==
    \E cache \in [GridPaths -> {NoEntry, Entry(Jpeg), Entry(Html), Entry(Empty)}] :
        GridConstructed(cache)

JobIds == 1..Len(jobs)
SetJob(j, pc) == [jobs EXCEPT ![j].pc = pc]
SetJobData(j, pc, data) == [jobs EXCEPT ![j].pc = pc, ![j].data = data]
JobsRunning == {j \in JobIds : jobs[j].pc \notin {"pending", "done"}}

\* the records of a call: the paths lo..hi of the listing
Records(lo, hi) == [i \in 1..(hi - lo + 1) |-> lo + i - 1]

\* load_videos up to and including self.clear() and the capture of the id
LoadClear(lo, hi) ==
    /\ gpc = "idle"
    /\ loading_batch_id < MaxBatches
    /\ lo <= hi
    /\ Len(jobs) + (hi - lo + 1) <= MaxJobs
    /\ loading_batch_id' = loading_batch_id + 1
    /\ gpending' = Records(lo, hi)
    /\ gpc' = "submit"
    /\ gout' = NoPublish
    /\ UNCHANGED <<jobs, thumb_cache, returned_batch, grid_api>>
    /\ UNCHANGED dmVars
    /\ UNCHANGED <<connVars, cacheVars, parseVars>>

\* set_api(api), called by the window with the client of a new session
SetApi(api) ==
    /\ gpc = "idle"
    /\ grid_api # api
    /\ grid_api' = api
    /\ gout' = NoPublish
    /\ UNCHANGED <<loading_batch_id, jobs, thumb_cache, gpc, gpending, returned_batch>>
    /\ UNCHANGED dmVars
    /\ UNCHANGED <<connVars, cacheVars, parseVars>>

NewJob(path, batch) == [batch |-> batch, path |-> path, pc |-> "pending", data |-> Empty]

\* the loop of load_videos: one executor.submit per record, then return
LoadSubmit ==
    /\ gpc = "submit"
    /\ jobs' = jobs \o [i \in 1..Len(gpending) |-> NewJob(gpending[i], loading_batch_id)]
    /\ gpending' = <<>>
    /\ gpc' = "idle"
    /\ returned_batch' = loading_batch_id
    /\ gout' = NoPublish
    /\ UNCHANGED <<loading_batch_id, thumb_cache, grid_api>>
    /\ UNCHANGED dmVars
    /\ UNCHANGED <<connVars, cacheVars, parseVars>>

\* if batch_id != self.loading_batch_id
Outdated(j) == jobs[j].batch # loading_batch_id

JobStep(j, pc) ==
    /\ jobs' = SetJob(j, pc)
    /\ gout' = NoPublish
    /\ UNCHANGED <<loading_batch_id, thumb_cache, gpc, gpending, returned_batch, grid_api>>
    /\ UNCHANGED dmVars
    /\ UNCHANGED <<connVars, cacheVars, parseVars>>

\* a free pool thread takes the oldest submitted call and runs the entry
\* check of lines 206-208
JobEntry(j) ==
    /\ j \in JobIds
    /\ jobs[j].pc = "pending"
    /\ \A k \in JobIds : k < j => jobs[k].pc # "pending"
    /\ Cardinality(JobsRunning) < max_workers
    /\ JobStep(j, IF Outdated(j) THEN "done" ELSE "cache")

\* cached_data = self.cache_manager.get_thumbnail(video_file.path) and the
\* tests of lines 212-214 on it (line 211)
JobCacheLookup(j) ==
    /\ j \in JobIds
    /\ jobs[j].pc = "cache"
    /\ LET e == thumb_cache[jobs[j].path] IN
        /\ jobs' = IF e.present /\ e.blob # Empty
                      THEN SetJobData(j, IF IsJpeg(e.blob) THEN "cached_check"
                                                           ELSE "invalidate", e.blob)
                      ELSE SetJob(j, "api_set")
    /\ gout' = NoPublish
    /\ UNCHANGED <<loading_batch_id, thumb_cache, gpc, gpending, returned_batch, grid_api>>
    /\ UNCHANGED dmVars
    /\ UNCHANGED <<connVars, cacheVars, parseVars>>

\* line 217: if batch_id == self.loading_batch_id
JobCachedCheck(j) ==
    /\ j \in JobIds
    /\ jobs[j].pc = "cached_check"
    /\ JobStep(j, IF Outdated(j) THEN "done" ELSE "cached_publish")

\* line 218: GLib.idle_add(thumbnail.set_thumbnail_data, cached_data)
JobCachedPublish(j) ==
    /\ j \in JobIds
    /\ jobs[j].pc = "cached_publish"
    /\ jobs' = SetJob(j, "done")
    /\ gout' = Publish("thumbnail", j)
    /\ UNCHANGED <<loading_batch_id, thumb_cache, gpc, gpending, returned_batch, grid_api>>
    /\ UNCHANGED dmVars
    /\ UNCHANGED <<connVars, cacheVars, parseVars>>

\* an invalidation that leaves the entry in the cache
JobInvalidateKeeps(j) ==
    /\ j \in JobIds
    /\ jobs[j].pc = "invalidate"
    /\ JobStep(j, "api_set")

\* line 223: self.cache_manager.invalidate(video_file.path)
JobInvalidate(j) ==
    /\ j \in JobIds
    /\ jobs[j].pc = "invalidate"
    /\ thumb_cache' = [thumb_cache EXCEPT ![jobs[j].path] = NoEntry]
    /\ jobs' = SetJob(j, "api_set")
    /\ gout' = NoPublish
    /\ UNCHANGED <<loading_batch_id, gpc, gpending, returned_batch, grid_api>>
    /\ UNCHANGED dmVars
    /\ UNCHANGED <<connVars, cacheVars, parseVars>>

\* lines 226-228: `if not self.api: return`
JobApiSet(j) ==
    /\ j \in JobIds
    /\ jobs[j].pc = "api_set"
    /\ JobStep(j, IF grid_api = "none" THEN "done" ELSE "pre_api")

\* lines 231-233: the check before the API call
JobPreApiCheck(j) ==
    /\ j \in JobIds
    /\ jobs[j].pc = "pre_api"
    /\ JobStep(j, IF Outdated(j) THEN "done" ELSE "api")

\* time.sleep(0.05); thumbnail_data = self.api.get_thumbnail(thumbnail_path):
\* it returns a blob or raises
JobApiCall(j) ==
    /\ j \in JobIds
    /\ jobs[j].pc = "api"
    /\ \/ \E data \in ApiBlobs : jobs' = SetJobData(j, "post_api", data)
       \/ jobs' = SetJob(j, "except")
    /\ gout' = NoPublish
    /\ UNCHANGED <<loading_batch_id, thumb_cache, gpc, gpending, returned_batch, grid_api>>
    /\ UNCHANGED dmVars
    /\ UNCHANGED <<connVars, cacheVars, parseVars>>

\* lines 245-251: the check after the API call and the tests on the data
JobPostApiCheck(j) ==
    /\ j \in JobIds
    /\ jobs[j].pc = "post_api"
    /\ JobStep(j, IF Outdated(j) THEN "done"
                   ELSE IF jobs[j].data # Empty /\ IsJpeg(jobs[j].data) THEN "save"
                   ELSE "show_error")

\* line 266: self.cache_manager.save_thumbnail(video_file.path, thumbnail_data)
JobSave(j) ==
    /\ j \in JobIds
    /\ jobs[j].pc = "save"
    /\ thumb_cache' = [thumb_cache EXCEPT ![jobs[j].path] = Entry(jobs[j].data)]
    /\ jobs' = SetJob(j, "publish")
    /\ gout' = NoPublish
    /\ UNCHANGED <<loading_batch_id, gpc, gpending, returned_batch, grid_api>>
    /\ UNCHANGED dmVars
    /\ UNCHANGED <<connVars, cacheVars, parseVars>>

\* line 269: GLib.idle_add(thumbnail.set_thumbnail_data, thumbnail_data)
JobPublish(j) ==
    /\ j \in JobIds
    /\ jobs[j].pc = "publish"
    /\ jobs' = SetJob(j, "done")
    /\ gout' = Publish("thumbnail", j)
    /\ UNCHANGED <<loading_batch_id, thumb_cache, gpc, gpending, returned_batch, grid_api>>
    /\ UNCHANGED dmVars
    /\ UNCHANGED <<connVars, cacheVars, parseVars>>

\* lines 274-276: the except clause and its check
JobExceptCheck(j) ==
    /\ j \in JobIds
    /\ jobs[j].pc = "except"
    /\ JobStep(j, IF Outdated(j) THEN "done" ELSE "show_error")

\* lines 262, 272, 277: GLib.idle_add(thumbnail._show_error)
JobShowError(j) ==
    /\ j \in JobIds
    /\ jobs[j].pc = "show_error"
    /\ jobs' = SetJob(j, "done")
    /\ gout' = Publish("error", j)
    /\ UNCHANGED <<loading_batch_id, thumb_cache, gpc, gpending, returned_batch, grid_api>>
    /\ UNCHANGED dmVars
    /\ UNCHANGED <<connVars, cacheVars, parseVars>>

\* ------------------------------------------------------------------------
\* ConnectionManager: connect, disconnect and start_monitoring on the caller
\* thread, _monitor_connection on the prober thread.  connect() runs on the
\* caller thread and, for the auto-reconnect, on the prober thread.
\* ------------------------------------------------------------------------
\* the prober threads: "monitor" is the first one started, "monitor2" one
\* started while the first is still alive
Probers == {"monitor", "monitor2"}
ConnThreads == {"caller"} \cup Probers

Silent == [by |-> "none", msg |-> "none", flag |-> FALSE, sink_raised |-> FALSE,
           call |-> "none", answer |-> "none", ret |-> "none"]
\* a notification that always reports connected = False
NotifyNeverConnected(th, msg, connected, raised) ==
    [Silent EXCEPT !.by = th, !.msg = msg, !.flag = FALSE, !.sink_raised = raised]

\* _notify_status(message, connected) by thread th; an exception of the sink
\* is caught and logged (lines 228-231)
Notify(th, msg, connected, raised) ==
    [Silent EXCEPT !.by = th, !.msg = msg, !.flag = connected, !.sink_raised = raised]
\* a call of the Device Client by thread th
DeviceCall(th, call) == [Silent EXCEPT !.by = th, !.call = call]
\* what the device did with a call: it answered a text, a text holding
\* "error", nothing at all, or the call raised
Answers == {"text", "error", "empty", "raises"}
Answered(note, answer) ==
    IF note.call = "none" THEN note ELSE [note EXCEPT !.answer = answer]
Returned(th, b) == IF b THEN "true" ELSE "false"

InitConn ==
    /\ cm_api = "none"
    /\ is_connected = FALSE
    /\ stop_monitoring = FALSE
    /\ monitor_thread = "none"
    /\ auto_reconnect = FALSE
    /\ mpc = "off"
    /\ mpc2 = "off"
    /\ kpc = [th \in ConnThreads |-> "idle"]
    /\ dpc = "idle"
    /\ conn_ops = 0
    /\ disconnected = FALSE
    /\ cout = Silent

\* the position of prober m, and the step that moves it
Pos(m) == IF m = "monitor" THEN mpc ELSE mpc2
MoveTo(m, pc) ==
    IF m = "monitor" THEN mpc' = pc /\ UNCHANGED mpc2
                     ELSE mpc2' = pc /\ UNCHANGED mpc

\* the prober thread is alive
MonitorAlive == mpc \notin {"off", "ended"}
SecondAlive == mpc2 \notin {"off", "ended"}

\* self._monitor_thread and self._monitor_thread.is_alive()
MonitorThreadAlive ==
    \/ monitor_thread = "thread" /\ MonitorAlive
    \/ monitor_thread = "thread2" /\ SecondAlive

\* the caller thread is between two calls
CallerIdle == dpc = "idle" /\ kpc["caller"] = "idle"

\* connect() returns b to thread th: the caller gets the value, the prober
\* goes on to the wait of line 215
ConnectReturns(th, b, note) ==
    /\ kpc' = [kpc EXCEPT ![th] = "idle"]
    /\ cout' = [note EXCEPT !.ret = Returned(th, b)]
    /\ IF th \in Probers THEN MoveTo(th, "wait") ELSE UNCHANGED <<mpc, mpc2>>

\* line 65: self._notify_status("Discovering dashcam...", False)
ConnectBegin(th, raised) ==
    /\ kpc[th] = "begin"
    /\ kpc' = [kpc EXCEPT ![th] = "discover"]
    /\ cout' = Notify(th, "discovering", FALSE, raised)
    /\ UNCHANGED <<cm_api, is_connected, stop_monitoring, monitor_thread,
                   auto_reconnect, mpc, mpc2, dpc, conn_ops, disconnected>>
    /\ UNCHANGED <<dmVars, gridVars, cacheVars, parseVars>>

\* line 68: self.discover_dashcam()
Discover(th, found) ==
    /\ kpc[th] = "discover"
    /\ kpc' = [kpc EXCEPT ![th] = IF found THEN "connecting" ELSE "not_found"]
    /\ cout' = Silent
    /\ UNCHANGED <<cm_api, is_connected, stop_monitoring, monitor_thread,
                   auto_reconnect, mpc, mpc2, dpc, conn_ops, disconnected>>
    /\ UNCHANGED <<dmVars, gridVars, cacheVars, parseVars>>

\* lines 69-72: notify "not found" and return False
NotFound(th, raised) ==
    /\ kpc[th] = "not_found"
    /\ ConnectReturns(th, FALSE, Notify(th, "not_found", FALSE, raised))
    /\ UNCHANGED <<cm_api, is_connected, stop_monitoring, monitor_thread,
                   auto_reconnect, dpc, conn_ops, disconnected>>
    /\ UNCHANGED <<dmVars, gridVars, cacheVars, parseVars>>

\* line 74: self._notify_status("Connecting to dashcam...", False)
Connecting(th, raised) ==
    /\ kpc[th] = "connecting"
    /\ kpc' = [kpc EXCEPT ![th] = "create"]
    /\ cout' = Notify(th, "connecting", FALSE, raised)
    /\ UNCHANGED <<cm_api, is_connected, stop_monitoring, monitor_thread,
                   auto_reconnect, mpc, mpc2, dpc, conn_ops, disconnected>>
    /\ UNCHANGED <<dmVars, gridVars, cacheVars, parseVars>>

\* line 79: self.api = DashcamAPI(...)
CreateClient(th) ==
    /\ kpc[th] = "create"
    /\ cm_api' = "client"
    /\ kpc' = [kpc EXCEPT ![th] = "get_device_attr"]
    /\ cout' = Silent
    /\ UNCHANGED <<is_connected, stop_monitoring, monitor_thread,
                   auto_reconnect, mpc, mpc2, dpc, conn_ops, disconnected>>
    /\ UNCHANGED <<dmVars, gridVars, cacheVars, parseVars>>

\* lines 83, 90, 98 and 104: get_device_attr, then register_client, then
\* get_wifi, then work_mode_cmd('stop')
AfterCall(call) ==
    IF call = "get_device_attr" THEN "register_client"
    ELSE IF call = "register_client" THEN "get_wifi" ELSE "stop_rec"

\* a call that raises fails connect(), and so does an empty device info
\* (lines 85-86); "error" in the registration answer is only logged (lines
\* 92-94) and the answer of get_wifi is only logged (line 99)
HandshakeFails(call, answer) ==
    \/ answer = "raises"
    \/ call = "get_device_attr" /\ answer = "empty"

\* lines 83-99: one call of the handshake through self.api.  With self.api
\* set to None by another thread the attribute access raises and no call is
\* made.
Handshake(th, answer) ==
    /\ kpc[th] \in {"get_device_attr", "register_client", "get_wifi"}
    /\ cm_api = "none" => answer = "raises"
    /\ kpc' = [kpc EXCEPT ![th] = IF HandshakeFails(kpc[th], answer)
                                     THEN "fail_api" ELSE AfterCall(kpc[th])]
    /\ cout' = IF cm_api = "client"
                  THEN Answered(DeviceCall(th, kpc[th]), answer) ELSE Silent
    /\ UNCHANGED <<cm_api, is_connected, stop_monitoring, monitor_thread,
                   auto_reconnect, mpc, mpc2, dpc, conn_ops, disconnected>>
    /\ UNCHANGED <<dmVars, gridVars, cacheVars, parseVars>>

\* a work_mode_cmd('stop') that is never sent
WorkModeStopNever(th) == Silent

\* self.api.work_mode_cmd('stop') inside try/except Exception: the call is
\* made when self.api is a client; whatever it raises is logged and ignored
WorkModeStop(th) ==
    IF cm_api = "client" THEN DeviceCall(th, "work_mode_cmd") ELSE Silent

\* lines 103-108
StopRecording(th, raised) ==
    /\ kpc[th] = "stop_rec"
    /\ kpc' = [kpc EXCEPT ![th] = "set_connected"]
    /\ cout' = Answered(WorkModeStop(th), IF raised THEN "raises" ELSE "text")
    /\ UNCHANGED <<cm_api, is_connected, stop_monitoring, monitor_thread,
                   auto_reconnect, mpc, mpc2, dpc, conn_ops, disconnected>>
    /\ UNCHANGED <<dmVars, gridVars, cacheVars, parseVars>>

\* line 110: self.is_connected = True
SetConnected(th) ==
    /\ kpc[th] = "set_connected"
    /\ is_connected' = TRUE
    /\ kpc' = [kpc EXCEPT ![th] = "notify_connected"]
    /\ cout' = Silent
    /\ UNCHANGED <<cm_api, stop_monitoring, monitor_thread,
                   auto_reconnect, mpc, mpc2, dpc, conn_ops, disconnected>>
    /\ UNCHANGED <<dmVars, gridVars, cacheVars, parseVars>>

\* lines 113-115: notify the success and return True
NotifyConnected(th, raised) ==
    /\ kpc[th] = "notify_connected"
    /\ ConnectReturns(th, TRUE, Notify(th, "connected", TRUE, raised))
    /\ UNCHANGED <<cm_api, is_connected, stop_monitoring, monitor_thread,
                   auto_reconnect, dpc, conn_ops, disconnected>>
    /\ UNCHANGED <<dmVars, gridVars, cacheVars, parseVars>>

\* line 120 of the except clause: self.api = None
FailClearApi(th) ==
    /\ kpc[th] = "fail_api"
    /\ cm_api' = "none"
    /\ kpc' = [kpc EXCEPT ![th] = "fail_reset"]
    /\ cout' = Silent
    /\ UNCHANGED <<is_connected, stop_monitoring, monitor_thread,
                   auto_reconnect, mpc, mpc2, dpc, conn_ops, disconnected>>
    /\ UNCHANGED <<dmVars, gridVars, cacheVars, parseVars>>

\* line 121 of the except clause: self.is_connected = False
FailReset(th) ==
    /\ kpc[th] = "fail_reset"
    /\ is_connected' = FALSE
    /\ kpc' = [kpc EXCEPT ![th] = "fail_notify"]
    /\ cout' = Silent
    /\ UNCHANGED <<cm_api, stop_monitoring, monitor_thread,
                   auto_reconnect, mpc, mpc2, dpc, conn_ops, disconnected>>
    /\ UNCHANGED <<dmVars, gridVars, cacheVars, parseVars>>

\* lines 122-123: notify the failure and return False
FailNotify(th, raised) ==
    /\ kpc[th] = "fail_notify"
    /\ ConnectReturns(th, FALSE, Notify(th, "failed", FALSE, raised))
    /\ UNCHANGED <<cm_api, is_connected, stop_monitoring, monitor_thread,
                   auto_reconnect, dpc, conn_ops, disconnected>>
    /\ UNCHANGED <<dmVars, gridVars, cacheVars, parseVars>>

\* the caller calls connect()
CallConnect ==
    /\ CallerIdle
    /\ conn_ops < MaxConnOps
    /\ conn_ops' = conn_ops + 1
    /\ kpc' = [kpc EXCEPT !["caller"] = "begin"]
    /\ disconnected' = FALSE
    /\ cout' = Silent
    /\ UNCHANGED <<cm_api, is_connected, stop_monitoring, monitor_thread,
                   auto_reconnect, mpc, mpc2, dpc>>
    /\ UNCHANGED <<dmVars, gridVars, cacheVars, parseVars>>

\* start_monitoring(interval, auto_reconnect): nothing when the prober is
\* alive, else clear the event, store the flag and start the thread.  This
\* action is the call made while no prober that stop_monitoring gave up
\* joining is still alive; StartMonitoringOverOld below is the other one.
StartMonitoring(auto) ==
    /\ CallerIdle
    /\ conn_ops < MaxConnOps
    /\ MonitorThreadAlive \/ ~MonitorAlive
    /\ conn_ops' = conn_ops + 1
    /\ IF MonitorThreadAlive
          THEN UNCHANGED <<stop_monitoring, auto_reconnect, monitor_thread, mpc>>
          ELSE /\ stop_monitoring' = FALSE
               /\ auto_reconnect' = auto
               /\ monitor_thread' = "thread"
               /\ mpc' = "loop"
    /\ cout' = Silent
    /\ UNCHANGED <<cm_api, is_connected, mpc2, kpc, dpc, disconnected>>
    /\ UNCHANGED <<dmVars, gridVars, cacheVars, parseVars>>

\* start_monitoring called after stop_monitoring's join(timeout=2.0) expired
\* and line 180 forgot the thread: the test of line 157 sees no thread, line
\* 162 clears the event the old prober was to stop on, and lines 164-169
\* start a second thread beside it
StartMonitoringOverOld(auto) ==
    /\ CallerIdle
    /\ conn_ops < MaxConnOps
    /\ ~MonitorThreadAlive /\ MonitorAlive /\ ~SecondAlive
    /\ conn_ops' = conn_ops + 1
    /\ stop_monitoring' = FALSE
    /\ auto_reconnect' = auto
    /\ monitor_thread' = "thread2"
    /\ mpc2' = "loop"
    /\ cout' = Silent
    /\ UNCHANGED <<cm_api, is_connected, mpc, kpc, dpc, disconnected>>
    /\ UNCHANGED <<dmVars, gridVars, cacheVars, parseVars>>

\* stop_monitoring() called on its own, lines 173-177: nothing without a
\* thread, else self._stop_monitoring.set()
StopMonitoringSet ==
    /\ CallerIdle
    /\ conn_ops < MaxConnOps
    /\ conn_ops' = conn_ops + 1
    /\ IF monitor_thread = "none"
          THEN UNCHANGED <<dpc, stop_monitoring>>
          ELSE /\ dpc' = "stop_join"
               /\ stop_monitoring' = TRUE
    /\ cout' = Silent
    /\ UNCHANGED <<cm_api, is_connected, monitor_thread, auto_reconnect, mpc, mpc2, kpc,
                   disconnected>>
    /\ UNCHANGED <<dmVars, gridVars, cacheVars, parseVars>>

\* lines 178-180 of a stop_monitoring() called on its own
StopMonitoringJoin(expired) ==
    /\ dpc = "stop_join"
    /\ ~MonitorThreadAlive \/ expired
    /\ monitor_thread' = "none"
    /\ dpc' = "idle"
    /\ cout' = Silent
    /\ UNCHANGED <<cm_api, is_connected, stop_monitoring, auto_reconnect, mpc, mpc2, kpc,
                   conn_ops, disconnected>>
    /\ UNCHANGED <<dmVars, gridVars, cacheVars, parseVars>>

\* disconnect() up to stop_monitoring's `self._stop_monitoring.set()`; with
\* no prober thread stop_monitoring returns at once (lines 173-174)
DisconnectBegin ==
    /\ CallerIdle
    /\ conn_ops < MaxConnOps
    /\ conn_ops' = conn_ops + 1
    /\ IF monitor_thread = "none"
          THEN /\ dpc' = "disc_api"
               /\ UNCHANGED stop_monitoring
          ELSE /\ dpc' = "disc_join"
               /\ stop_monitoring' = TRUE
    /\ cout' = Silent
    /\ UNCHANGED <<cm_api, is_connected, monitor_thread, auto_reconnect, mpc, mpc2, kpc,
                   disconnected>>
    /\ UNCHANGED <<dmVars, gridVars, cacheVars, parseVars>>

\* lines 178-180: join(timeout=2.0) returns when the prober has ended or the
\* 2 seconds are over; self._monitor_thread = None
DisconnectJoin(expired) ==
    /\ dpc = "disc_join"
    /\ ~MonitorThreadAlive \/ expired
    /\ monitor_thread' = "none"
    /\ dpc' = "disc_api"
    /\ cout' = Silent
    /\ UNCHANGED <<cm_api, is_connected, stop_monitoring, auto_reconnect, mpc, mpc2, kpc,
                   conn_ops, disconnected>>
    /\ UNCHANGED <<dmVars, gridVars, cacheVars, parseVars>>

\* line 129: self.api = None
DisconnectClearApi ==
    /\ dpc = "disc_api"
    /\ cm_api' = "none"
    /\ dpc' = "disc_clear"
    /\ cout' = Silent
    /\ UNCHANGED <<is_connected, stop_monitoring, monitor_thread, auto_reconnect, mpc,
                   mpc2, kpc, conn_ops, disconnected>>
    /\ UNCHANGED <<dmVars, gridVars, cacheVars, parseVars>>

\* line 130: self.is_connected = False
DisconnectClear ==
    /\ dpc = "disc_clear"
    /\ is_connected' = FALSE
    /\ dpc' = "disc_notify"
    /\ cout' = Silent
    /\ UNCHANGED <<cm_api, stop_monitoring, monitor_thread, auto_reconnect, mpc, mpc2,
                   kpc, conn_ops, disconnected>>
    /\ UNCHANGED <<dmVars, gridVars, cacheVars, parseVars>>

\* line 131: notify "Disconnected"; disconnect() returns
DisconnectNotify(raised) ==
    /\ dpc = "disc_notify"
    /\ dpc' = "idle"
    /\ disconnected' = TRUE
    /\ cout' = [Notify("caller", "disconnected", FALSE, raised) EXCEPT !.ret = "none"]
    /\ UNCHANGED <<cm_api, is_connected, stop_monitoring, monitor_thread,
                   auto_reconnect, mpc, mpc2, kpc, conn_ops>>
    /\ UNCHANGED <<dmVars, gridVars, cacheVars, parseVars>>

\* a step of prober m that only moves it to position pc
MonitorStep(m, pc, note) ==
    /\ MoveTo(m, pc)
    /\ cout' = note
    /\ UNCHANGED <<cm_api, is_connected, stop_monitoring, monitor_thread,
                   auto_reconnect, kpc, dpc, conn_ops, disconnected>>
    /\ UNCHANGED <<dmVars, gridVars, cacheVars, parseVars>>

\* line 190-191: `while not self._stop_monitoring.is_set()` and
\* `if self.is_connected`
MonitorLoop(m) ==
    /\ Pos(m) = "loop"
    /\ MonitorStep(m, IF stop_monitoring THEN "ended"
                      ELSE IF is_connected THEN "test" ELSE "wait", Silent)

\* test_connectivity(): False without a call when there is no client or the
\* session is not connected, else get_work_state() answers or raises
TestConnectivity(m, alive) ==
    /\ Pos(m) = "test"
    /\ IF cm_api = "none" \/ ~is_connected
          THEN /\ ~alive
               /\ MonitorStep(m, "lost", Silent)
          ELSE MonitorStep(m, IF alive THEN "keep" ELSE "lost",
                           DeviceCall(m, "get_work_state"))

\* line 195: self.is_connected = False
MonitorLost(m) ==
    /\ Pos(m) = "lost"
    /\ is_connected' = FALSE
    /\ MoveTo(m, "lost_notify")
    /\ cout' = Silent
    /\ UNCHANGED <<cm_api, stop_monitoring, monitor_thread, auto_reconnect, kpc, dpc,
                   conn_ops, disconnected>>
    /\ UNCHANGED <<dmVars, gridVars, cacheVars, parseVars>>

\* lines 196-198: notify "Connection lost"; `if self._auto_reconnect`
MonitorLostNotify(m, raised) ==
    /\ Pos(m) = "lost_notify"
    /\ MonitorStep(m, IF auto_reconnect THEN "reconnect" ELSE "wait",
                   Notify(m, "lost", FALSE, raised))

\* lines 200-201: notify "Reconnecting..." and call self.connect()
MonitorReconnect(m, raised) ==
    /\ Pos(m) = "reconnect"
    /\ MoveTo(m, "in_connect")
    /\ kpc' = [kpc EXCEPT ![m] = "begin"]
    /\ cout' = Notify(m, "reconnecting", FALSE, raised)
    /\ UNCHANGED <<cm_api, is_connected, stop_monitoring, monitor_thread,
                   auto_reconnect, dpc, conn_ops, disconnected>>
    /\ UNCHANGED <<dmVars, gridVars, cacheVars, parseVars>>

\* a prober that a failed work_mode_cmd('stop') brings to its end
MonitorKeepStoppedOrEnd(m, raised) ==
    /\ Pos(m) = "keep"
    /\ MonitorStep(m, IF raised THEN "ended" ELSE "wait",
                   Answered(WorkModeStop(m),
                            IF raised THEN "raises" ELSE "text"))

\* lines 208-212: self.api.work_mode_cmd('stop') inside try/except
MonitorKeepStopped(m, raised) ==
    /\ Pos(m) = "keep"
    /\ MonitorStep(m, "wait", Answered(WorkModeStop(m),
                                       IF raised THEN "raises" ELSE "text"))

\* line 215: self._stop_monitoring.wait(interval) returns, the event set or
\* the interval over
MonitorWait(m) ==
    /\ Pos(m) = "wait"
    /\ MonitorStep(m, "loop", Silent)

\* ------------------------------------------------------------------------
\* CacheManager: has_thumbnail, get_thumbnail, save_thumbnail, invalidate,
\* clear_cache and cleanup_old_entries, called from the pool threads of the
\* grid and from the main thread.  The class takes no lock.  The files
\* behave as on POSIX: a file unlinked while a writer holds it open is gone
\* from the directory and the writer's bytes go with it.  The grid's
\* thumb_cache above is the same directory seen as path -> blob.
\* ------------------------------------------------------------------------
Savers == 1..MaxSavers

\* hashlib.md5(file_path.encode()).hexdigest(): the digests of the paths of
\* the listing, first eight hex digits
Digests == <<"c4ca4238", "c81e728d", "eccbc87e", "a87ff679">>
get_cache_key(file_path) == Digests[file_path]
CacheKeys == {get_cache_key(p) : p \in GridPaths}

\* thumbnail blobs of two sizes
Tiny == <<255, 216>>
CacheBlobs == {Jpeg, Tiny}

NoFile == [exists |-> FALSE, data |-> Empty]
File(data) == [exists |-> TRUE, data |-> data]

NoMeta == [present |-> FALSE, file_path |-> 0, cached_at |-> 0, size |-> 0]
Meta(file_path, data) ==
    [present |-> TRUE, file_path |-> file_path, cached_at |-> now, size |-> Len(data)]

\* a pool thread outside the cache; inside a call: its position, its
\* arguments, whether its open file still has its directory entry, the
\* local `removed` of invalidate and whether the path was cached when
\* invalidate was entered
NotSaving == [pc |-> "idle", file_path |-> 0, data |-> Empty, linked |-> FALSE,
              removed |-> FALSE, before |-> FALSE]
NotSaved == [valid |-> FALSE, data |-> Empty]
Saved(data) == [valid |-> TRUE, data |-> data]

NoReturn == [op |-> "none", file_path |-> 0, ret |-> FALSE, found |-> FALSE,
             data |-> Empty, count |-> 0]
Return(op, file_path, ret) == [NoReturn EXCEPT !.op = op, !.file_path = file_path, !.ret = ret]

\* CacheManager(cache_dir) over a fresh directory
InitCache ==
    /\ thumbnail_dir = [k \in CacheKeys |-> NoFile]
    /\ metadata = [k \in CacheKeys |-> NoMeta]
    /\ now = 0
    /\ spc = [w \in Savers |-> NotSaving]
    /\ last_saved = [p \in GridPaths |-> NotSaved]
    /\ cache_out = NoReturn

\* thumbnail_path.exists()
has_thumbnail(file_path) == thumbnail_dir[get_cache_key(file_path)].exists

\* None, or the bytes of the file
get_thumbnail(file_path) ==
    IF has_thumbnail(file_path)
      THEN [found |-> TRUE, data |-> thumbnail_dir[get_cache_key(file_path)].data]
      ELSE [found |-> FALSE, data |-> Empty]

HasThumbnail(p) ==
    /\ cache_out' = Return("has_thumbnail", p, has_thumbnail(p))
    /\ UNCHANGED <<thumbnail_dir, metadata, now, spc, last_saved>>
    /\ UNCHANGED <<dmVars, gridVars, connVars, parseVars>>

GetThumbnail(p) ==
    /\ cache_out' = [Return("get_thumbnail", p, get_thumbnail(p).found)
                        EXCEPT !.found = get_thumbnail(p).found,
                               !.data = get_thumbnail(p).data]
    /\ UNCHANGED <<thumbnail_dir, metadata, now, spc, last_saved>>
    /\ UNCHANGED <<dmVars, gridVars, connVars, parseVars>>

\* f.write(data) of a file opened 'wb': the bytes go to offset 0 of whatever
\* the file holds by then
WriteAtStart(old, data) == data \o SubSeq(old, Len(data) + 1, Len(old))

\* every open handle on the file of key k loses its directory entry
Unlinked(keys) ==
    [w \in Savers |->
        IF spc[w].pc = "opened" /\ get_cache_key(spc[w].file_path) \in keys
          THEN [spc[w] EXCEPT !.linked = FALSE]
          ELSE spc[w]]

\* save_thumbnail, line 135: open(thumbnail_path, 'wb') creates the file or
\* truncates it
SaveOpen(w, p, data) ==
    /\ spc[w].pc = "idle"
    /\ thumbnail_dir' = [thumbnail_dir EXCEPT ![get_cache_key(p)] = File(Empty)]
    /\ spc' = [spc EXCEPT ![w] = [NotSaving EXCEPT !.pc = "opened", !.file_path = p,
                                                    !.data = data, !.linked = TRUE]]
    /\ last_saved' = [last_saved EXCEPT ![p] = NotSaved]
    /\ cache_out' = NoReturn
    /\ UNCHANGED <<metadata, now>>
    /\ UNCHANGED <<dmVars, gridVars, connVars, parseVars>>

\* save_thumbnail, lines 135 and 148-150: open raises, the call returns False
SaveOpenRaises(w, p) ==
    /\ spc[w].pc = "idle"
    /\ cache_out' = Return("save_thumbnail", p, FALSE)
    /\ UNCHANGED <<thumbnail_dir, metadata, now, spc, last_saved>>
    /\ UNCHANGED <<dmVars, gridVars, connVars, parseVars>>

\* save_thumbnail, lines 135-136: write and close
SaveWrite(w) ==
    /\ spc[w].pc = "opened"
    /\ LET k == get_cache_key(spc[w].file_path)
       IN thumbnail_dir' =
              IF spc[w].linked
                THEN [thumbnail_dir EXCEPT
                         ![k] = File(WriteAtStart(thumbnail_dir[k].data, spc[w].data))]
                ELSE thumbnail_dir
    /\ spc' = [spc EXCEPT ![w].pc = "index"]
    /\ cache_out' = NoReturn
    /\ UNCHANGED <<metadata, now, last_saved>>
    /\ UNCHANGED <<dmVars, gridVars, connVars, parseVars>>

\* save_thumbnail, lines 139-143: self.metadata[cache_key] = {...}
SaveIndex(w) ==
    /\ spc[w].pc = "index"
    /\ metadata' = [metadata EXCEPT ![get_cache_key(spc[w].file_path)] =
                                       Meta(spc[w].file_path, spc[w].data)]
    /\ spc' = [spc EXCEPT ![w].pc = "persist"]
    /\ cache_out' = NoReturn
    /\ UNCHANGED <<thumbnail_dir, now, last_saved>>
    /\ UNCHANGED <<dmVars, gridVars, connVars, parseVars>>

\* save_thumbnail, lines 144-147: self._save_metadata(), which swallows its
\* own exceptions, and return True
SavePersist(w) ==
    /\ spc[w].pc = "persist"
    /\ last_saved' = [last_saved EXCEPT ![spc[w].file_path] = Saved(spc[w].data)]
    /\ cache_out' = [Return("save_thumbnail", spc[w].file_path, TRUE)
                        EXCEPT !.data = spc[w].data]
    /\ spc' = [spc EXCEPT ![w] = NotSaving]
    /\ UNCHANGED <<thumbnail_dir, metadata, now>>
    /\ UNCHANGED <<dmVars, gridVars, connVars, parseVars>>

\* save_thumbnail, lines 136 and 148-150: write raises, the file is closed
\* as it is and the call returns False
SaveWriteRaises(w) ==
    /\ spc[w].pc = "opened"
    /\ cache_out' = Return("save_thumbnail", spc[w].file_path, FALSE)
    /\ spc' = [spc EXCEPT ![w] = NotSaving]
    /\ UNCHANGED <<thumbnail_dir, metadata, now, last_saved>>
    /\ UNCHANGED <<dmVars, gridVars, connVars, parseVars>>

\* the paths whose key is among keys
PathsOf(keys) == {p \in GridPaths : get_cache_key(p) \in keys}

\* unlink the files of keys and delete their index entries
Remove(keys) ==
    /\ thumbnail_dir' = [k \in CacheKeys |-> IF k \in keys THEN NoFile ELSE thumbnail_dir[k]]
    /\ metadata' = [k \in CacheKeys |-> IF k \in keys THEN NoMeta ELSE metadata[k]]
    /\ spc' = Unlinked(keys)
    /\ last_saved' = [p \in GridPaths |-> IF p \in PathsOf(keys) THEN NotSaved
                                                                 ELSE last_saved[p]]

\* invalidate, lines 173-183: unlink the file if it exists
InvalidateUnlink(w, p) ==
    /\ spc[w].pc = "idle"
    /\ thumbnail_dir' = [thumbnail_dir EXCEPT ![get_cache_key(p)] = NoFile]
    /\ spc' = [Unlinked({get_cache_key(p)}) EXCEPT
                  ![w] = [NotSaving EXCEPT
                             !.pc = "inv_index", !.file_path = p,
                             !.removed = has_thumbnail(p),
                             !.before = has_thumbnail(p) \/ metadata[get_cache_key(p)].present]]
    /\ last_saved' = [last_saved EXCEPT ![p] = NotSaved]
    /\ cache_out' = NoReturn
    /\ UNCHANGED <<metadata, now>>
    /\ UNCHANGED <<dmVars, gridVars, connVars, parseVars>>

\* invalidate, lines 185-190: delete the index entry if there is one, save
\* the index, return removed
InvalidateIndex(w) ==
    /\ spc[w].pc = "inv_index"
    /\ LET p == spc[w].file_path
           k == get_cache_key(p)
       IN /\ metadata' = [metadata EXCEPT ![k] = NoMeta]
          /\ last_saved' = [last_saved EXCEPT ![p] = NotSaved]
          /\ cache_out' = Return("invalidate", p, spc[w].removed \/ metadata[k].present)
    /\ spc' = [spc EXCEPT ![w] = NotSaving]
    /\ UNCHANGED <<thumbnail_dir, now>>
    /\ UNCHANGED <<dmVars, gridVars, connVars, parseVars>>

ClearCache ==
    /\ Remove(CacheKeys)
    /\ cache_out' = [NoReturn EXCEPT !.op = "clear_cache",
                        !.count = Cardinality({k \in CacheKeys : thumbnail_dir[k].exists})]
    /\ UNCHANGED now
    /\ UNCHANGED <<dmVars, gridVars, connVars, parseVars>>

\* lines 222-233: the keys of the index entries older than the cutoff
keys_to_remove(max_age_days) ==
    {k \in CacheKeys : metadata[k].present /\ metadata[k].cached_at < now - max_age_days}

CleanupOldEntries(max_age_days) ==
    /\ Remove(keys_to_remove(max_age_days))
    /\ cache_out' = [NoReturn EXCEPT !.op = "cleanup_old_entries",
                        !.count = Cardinality({k \in keys_to_remove(max_age_days) :
                                                  thumbnail_dir[k].exists})]
    /\ UNCHANGED now
    /\ UNCHANGED <<dmVars, gridVars, connVars, parseVars>>

\* a day passes, between calls
Tick ==
    /\ now < MaxClock
    /\ \A w \in Savers : spc[w].pc = "idle"
    /\ now' = now + 1
    /\ cache_out' = NoReturn
    /\ UNCHANGED <<thumbnail_dir, metadata, spc, last_saved>>
    /\ UNCHANGED <<dmVars, gridVars, connVars, parseVars>>

\* ------------------------------------------------------------------------
\* VideoFile.from_filename (src/src/api/models.py).  A string is a sequence
\* of one-character strings.
\* ------------------------------------------------------------------------
Digits == {"0", "1", "2", "3", "4", "5", "6", "7", "8", "9"}
DigitValue == [c \in Digits |->
                 CASE c = "0" -> 0 [] c = "1" -> 1 [] c = "2" -> 2 [] c = "3" -> 3
                   [] c = "4" -> 4 [] c = "5" -> 5 [] c = "6" -> 6 [] c = "7" -> 7
                   [] c = "8" -> 8 [] c = "9" -> 9]

\* int(s) for a string of digits
RECURSIVE int(_)
int(s) == IF s = <<>> THEN 0
          ELSE 10 * int(SubSeq(s, 1, Len(s) - 1)) + DigitValue[s[Len(s)]]

\* sub in s
Contains(s, sub) ==
    \E i \in 1..(Len(s) - Len(sub) + 1) : SubSeq(s, i, i + Len(sub) - 1) = sub

\* path.split('/')[-1]
RECURSIVE LastSegment(_)
LastSegment(path) ==
    IF \E i \in 1..Len(path) : path[i] = "/"
      THEN LastSegment(Tail(path))
      ELSE path

\* r'(\d{4})_(\d{2})_(\d{2})_(\d{6})_\d{2}\.(TS|THM|TXT)': "d" stands for \d
PatternStem == <<"d", "d", "d", "d", "_", "d", "d", "_", "d", "d", "_", "d", "d", "d", "d", "d", "d", "_", "d", "d", ".">>
PatternExtensions == {<<"T", "S">>, <<"T", "H", "M">>, <<"T", "X", "T">>}
AtomMatches(atom, c) == IF atom = "d" THEN c \in Digits ELSE c = atom

\* re.match(pattern, filename): the pattern has to match at the start of
\* the string
re_match(filename) ==
    \E ext \in PatternExtensions :
        /\ Len(filename) >= Len(PatternStem) + Len(ext)
        /\ \A i \in 1..Len(PatternStem) : AtomMatches(PatternStem[i], filename[i])
        /\ SubSeq(filename, Len(PatternStem) + 1, Len(PatternStem) + Len(ext)) = ext

\* datetime(year, month, day, hour, minute, second) raises ValueError
\* outside these ranges
DaysIn(year, month) ==
    IF month = 2
      THEN IF year % 4 = 0 /\ (year % 100 # 0 \/ year % 400 = 0) THEN 29 ELSE 28
      ELSE IF month \in {4, 6, 9, 11} THEN 30 ELSE 31
ValidDatetime(ts) ==
    /\ ts.year \in 1..9999
    /\ ts.month \in 1..12
    /\ ts.day \in 1..DaysIn(ts.year, ts.month)
    /\ ts.hour \in 0..23
    /\ ts.minute \in 0..59
    /\ ts.second \in 0..59

\* lines 44-52: the groups of the match, converted
Timestamp(filename) ==
    [year |-> int(SubSeq(filename, 1, 4)), month |-> int(SubSeq(filename, 6, 7)),
     day |-> int(SubSeq(filename, 9, 10)), hour |-> int(SubSeq(filename, 12, 13)),
     minute |-> int(SubSeq(filename, 14, 15)), second |-> int(SubSeq(filename, 16, 17))]

NoTimestamp == [year |-> 0, month |-> 0, day |-> 0, hour |-> 0, minute |-> 0, second |-> 0]
NotParsed == [kind |-> "none", path |-> <<>>, filename |-> <<>>,
              timestamp |-> NoTimestamp, camera |-> "none", type |-> "none"]
ValueError == [NotParsed EXCEPT !.kind = "ValueError"]

\* lines 54-63: camera and type from the directories of the path
Camera(path) == IF Contains(path, <<"/", "b", "a", "c", "k", "_">>) THEN "back" ELSE "front"
VideoType(path) ==
    IF Contains(path, <<"/", "e", "m", "r", "/">>) \/ Contains(path, <<"/", "b", "a", "c", "k", "_", "e", "m", "r", "/">>)
      THEN "emergency"
    ELSE IF Contains(path, <<"/", "p", "h", "o", "t", "o", "/">>) \/ Contains(path, <<"/", "b", "a", "c", "k", "_", "p", "h", "o", "t", "o", "/">>)
      THEN "photo"
    ELSE "normal"

from_filename(path) ==
    LET filename == LastSegment(path)
    IN IF ~re_match(filename) THEN ValueError
       ELSE IF ~ValidDatetime(Timestamp(filename)) THEN ValueError
       ELSE [kind |-> "VideoFile", path |-> path, filename |-> filename,
             timestamp |-> Timestamp(filename), camera |-> Camera(path),
             type |-> VideoType(path)]

\* the paths handed to from_filename: a directory, a file name made of a
\* stem and an extension, with or without a character in front of it and
\* text behind it
Directories == {<<>>, <<"s", "d", "/", "/", "n", "o", "r", "m", "/">>, <<"s", "d", "/", "/", "b", "a", "c", "k", "_", "e", "m", "r", "/">>}
Stems == {<<"2", "0", "2", "5", "_", "1", "0", "_", "1", "2", "_", "2", "2", "0", "3", "3", "7", "_", "0", "0">>, <<"2", "0", "2", "5", "_", "1", "3", "_", "1", "2", "_", "2", "2", "0", "3", "3", "7", "_", "0", "0">>, <<"2", "0", "a", "5", "_", "1", "0", "_", "1", "2", "_", "2", "2", "0", "3", "3", "7", "_", "0", "0">>, <<"2", "0", "2", "5", "_", "1", "0", "_", "1", "2", "_", "2", "2", "0", "3", "3", "7", "_", "0">>, <<"2", "0", "2", "5", "-", "1", "0", "-", "1", "2", "_", "2", "2", "0", "3", "3", "7", "_", "0", "0">>}
Extensions == {<<"T", "S">>, <<"T", "H", "M">>, <<"T", "X", "T">>, <<"t", "s">>, <<"M", "P", "4">>}
Leads == {<<>>, <<"x">>}
Trails == {<<>>, <<"x">>, <<".", "b", "a", "k">>}
NamePaths == {d \o l \o st \o <<".">> \o e \o tr :
                 d \in Directories, l \in Leads, st \in Stems,
                 e \in Extensions, tr \in Trails}

InitParse ==
    /\ fn_path = <<>>
    /\ fn_out = NotParsed

\* VideoFile.from_filename(fn_path)
FromFilename ==
    /\ fn_out = NotParsed
    /\ fn_path # <<>>
    /\ fn_out' = from_filename(fn_path)
    /\ UNCHANGED fn_path
    /\ UNCHANGED <<dmVars, gridVars, connVars, cacheVars>>

\* ------------------------------------------------------------------------
Init == InitDM /\ InitGrid /\ InitConn /\ InitCache /\ InitParse

Caller ==
    \/ \E v \in Videos : AddToQueue(v)
    \/ \E t \in TaskIds : RemoveCheck(t)
    \/ RemoveLocked
    \/ \E t \in TaskIds : PauseCheck(t)
    \/ PauseWrite
    \/ \E t \in TaskIds : ResumeCheck(t)
    \/ ResumeWrite
    \/ ClearBegin
    \/ ClearScan
    \/ ClearCompleted

Coordinator ==
    \/ LoopCheck
    \/ GetNextTasks
    \/ CoordSleep
    \/ MarkDownloading
    \/ Submit
    \/ \E t \in TaskIds, raised \in BOOLEAN : Reap(t, raised)

Worker(t) ==
    \/ Fetch(t)
    \/ WriteChunk(t)
    \/ StreamError(t)
    \/ StreamEnd(t)
    \/ MarkCompleted(t)
    \/ ResetAndRaise(t)

Next ==
    \/ Caller
    \/ Coordinator
    \/ \E t \in TaskIds : Worker(t)

Spec == Init /\ [][Next]_vars


\* the manager after add_to_queue(v), add_to_queue(v), pause_task of the
\* second task and add_to_queue(v), before the coordinator has looked
InitDMQueued ==
    /\ tasks = [t \in 1..3 |-> NewTask(CHOOSE v \in Videos : TRUE,
                                       IF t = 2 THEN "paused" ELSE "queued", 0)]
    /\ queue = <<1, 2, 3>>
    /\ queue_lock = "free"
    /\ disk = [p \in LocalPaths |-> "none"]
    /\ cpc = "loop"
    /\ tasks_to_start = <<>>
    /\ midx = 1
    /\ futures = {}
    /\ wpc = [t \in TaskIds |-> "idle"]
    /\ attempt = [t \in TaskIds |-> 0]
    /\ downloaded = [t \in TaskIds |-> 0]
    /\ exc = [t \in TaskIds |-> "none"]
    /\ clpc = "idle"
    /\ clarg = 0
    /\ ops = 0
    /\ out = Quiet
    /\ stop_workers = FALSE
    /\ executor = "running"
    /\ worker_thread = "thread"

InitQueued == InitDMQueued /\ InitGrid /\ InitConn /\ InitCache /\ InitParse

\* the caller calls resume_task for a task that is paused
ResumePaused(t) ==
    /\ t \in Created
    /\ Status(t) = "paused"
    /\ ResumeCheck(t)

Resume ==
    \/ \E t \in TaskIds : ResumePaused(t)
    \/ ResumeWrite

NextLive ==
    \/ Resume
    \/ Coordinator
    \/ \E t \in TaskIds : Worker(t)

\* the started manager with three tasks on fair threads: the coordinator
\* thread, the pool threads and a caller inside resume_task are scheduled
\* again and again, and every attempt of a download ends, in
\* success or with an exception
SpecLive ==
    /\ InitQueued /\ [][NextLive]_vars
    /\ WF_vars(Coordinator)
    /\ WF_vars(ResumeWrite)
    /\ \A t \in TaskIds : WF_vars(Worker(t))

\* the caller calls clear_completed while the queue is being worked off
NextClear ==
    \/ ClearBegin
    \/ ClearScan
    \/ ClearCompleted
    \/ Coordinator
    \/ \E t \in TaskIds : Worker(t)

SpecClear == InitQueued /\ [][NextClear]_vars

\* from_filename applied to each of the paths
InitNames ==
    /\ InitDM /\ InitGrid /\ InitConn /\ InitCache
    /\ fn_path \in NamePaths
    /\ fn_out = NotParsed

NextNames == FromFilename

SpecNames == InitNames /\ [][NextNames]_vars

\* the download manager with a caller that also calls stop()
Stop ==
    \/ StopSet
    \/ StopShutdown
    \/ StopWait
    \/ \E expired \in BOOLEAN : StopJoin(expired)
    \/ SubmitRaises
    \/ Start

NextStop ==
    \/ Next
    \/ Stop

SpecStop == Init /\ [][NextStop]_vars

MainThread ==
    \/ \E lo, hi \in GridPaths : LoadClear(lo, hi)
    \/ LoadSubmit
    \/ \E api \in {"none", "client"} : SetApi(api)

Job(j) ==
    \/ JobEntry(j)
    \/ JobCacheLookup(j)
    \/ JobCachedCheck(j)
    \/ JobCachedPublish(j)
    \/ JobInvalidate(j)
    \/ JobApiSet(j)
    \/ JobPreApiCheck(j)
    \/ JobApiCall(j)
    \/ JobPostApiCheck(j)
    \/ JobSave(j)
    \/ JobPublish(j)
    \/ JobExceptCheck(j)
    \/ JobShowError(j)

NextGrid ==
    \/ MainThread
    \/ \E j \in 1..MaxJobs : Job(j)

\* the grid over a cache directory that earlier runs filled
InitCached == InitDM /\ InitGridCached /\ InitConn /\ InitCache /\ InitParse

SpecGrid == InitCached /\ [][NextGrid]_vars

ConnectSteps(th) ==
    \/ \E raised \in BOOLEAN : ConnectBegin(th, raised)
    \/ \E found \in BOOLEAN : Discover(th, found)
    \/ \E raised \in BOOLEAN : NotFound(th, raised)
    \/ \E raised \in BOOLEAN : Connecting(th, raised)
    \/ CreateClient(th)
    \/ \E answer \in Answers : Handshake(th, answer)
    \/ \E raised \in BOOLEAN : StopRecording(th, raised)
    \/ SetConnected(th)
    \/ \E raised \in BOOLEAN : NotifyConnected(th, raised)
    \/ FailClearApi(th)
    \/ FailReset(th)
    \/ \E raised \in BOOLEAN : FailNotify(th, raised)

ConnCaller ==
    \/ CallConnect
    \/ \E auto \in BOOLEAN : StartMonitoring(auto)
    \/ DisconnectBegin
    \/ \E expired \in BOOLEAN : DisconnectJoin(expired)
    \/ DisconnectClearApi
    \/ DisconnectClear
    \/ \E raised \in BOOLEAN : DisconnectNotify(raised)

Monitor(m) ==
    \/ MonitorLoop(m)
    \/ \E alive \in BOOLEAN : TestConnectivity(m, alive)
    \/ MonitorLost(m)
    \/ \E raised \in BOOLEAN : MonitorLostNotify(m, raised)
    \/ \E raised \in BOOLEAN : MonitorReconnect(m, raised)
    \/ \E raised \in BOOLEAN : MonitorKeepStopped(m, raised)
    \/ MonitorWait(m)

NextConn ==
    \/ ConnCaller
    \/ \E m \in Probers : Monitor(m)
    \/ \E th \in ConnThreads : ConnectSteps(th)

SpecConn == Init /\ [][NextConn]_vars

\* the session brought online and then watched by the prober: the caller
\* calls connect() and start_monitoring() and makes no call while the
\* prober is alive
ConnectBeforeMonitoring == ~MonitorAlive /\ CallConnect

NextProbe ==
    \/ ConnectBeforeMonitoring
    \/ \E auto \in BOOLEAN : StartMonitoring(auto)
    \/ \E m \in Probers : Monitor(m)
    \/ \E th \in ConnThreads : ConnectSteps(th)

SpecProbe == Init /\ [][NextProbe]_vars

\* the same with a prober thread that is scheduled again and again, inside
\* its loop and inside the connect() it calls
SpecProbeLive ==
    /\ Init /\ [][NextProbe]_vars
    /\ WF_vars(Monitor("monitor"))
    /\ WF_vars(ConnectSteps("monitor"))

\* stop_monitoring() called on its own, and start_monitoring() called while
\* a prober that the bounded join gave up on is still alive
Restart ==
    \/ \E auto \in BOOLEAN : StartMonitoringOverOld(auto)
    \/ StopMonitoringSet
    \/ \E expired \in BOOLEAN : StopMonitoringJoin(expired)

NextRestart ==
    \/ ConnCaller
    \/ Restart
    \/ \E m \in Probers : Monitor(m)
    \/ \E th \in ConnThreads : ConnectSteps(th)

SpecRestart == Init /\ [][NextRestart]_vars

CacheCalls ==
    \/ \E p \in GridPaths : HasThumbnail(p)
    \/ \E p \in GridPaths : GetThumbnail(p)
    \/ ClearCache
    \/ \E max_age_days \in 0..MaxClock : CleanupOldEntries(max_age_days)

SaveSteps(w) ==
    \/ \E p \in GridPaths, data \in CacheBlobs : SaveOpen(w, p, data)
    \/ \E p \in GridPaths : SaveOpenRaises(w, p)
    \/ SaveWrite(w)
    \/ SaveWriteRaises(w)
    \/ SaveIndex(w)
    \/ SavePersist(w)

InvalidateSteps(w) ==
    \/ \E p \in GridPaths : InvalidateUnlink(w, p)
    \/ InvalidateIndex(w)

NextCache ==
    \/ CacheCalls
    \/ \E w \in Savers : SaveSteps(w)
    \/ \E w \in Savers : InvalidateSteps(w)
    \/ Tick

SpecCache == Init /\ [][NextCache]_vars

\* ------------------------------------------------------------------------
\* Properties of the download manager
\* ------------------------------------------------------------------------
QueuedInQueue == {t \in Created : InQueue(t) /\ Status(t) = "queued"}

RemoveCalled(t) ==
    /\ clpc = "idle"
    /\ ops' = ops + 1
    /\ \/ clpc' = "remove_locked" /\ clarg' = t
       \/ out'.op = "remove" /\ out'.task = t

\* C3: remove_from_queue(t) called while t.status is downloading returns
\* false and leaves the queue and every task unchanged.
C3_RemoveRejectedWhileDownloading ==
    [][\A t \in TaskIds :
          (t \in Created /\ Status(t) = "downloading" /\ RemoveCalled(t))
              => /\ out' = RetBool("remove", t, FALSE)
                 /\ clpc' = "idle"
                 /\ queue' = queue
                 /\ tasks' = tasks]_vars

\* remove_from_queue has just returned false for a queue member that a
\* worker is transferring
C3_RejectedRemoveOfActiveTask ==
    \E t \in Created :
        /\ out = RetBool("remove", t, FALSE)
        /\ Status(t) = "downloading"
        /\ InQueue(t)
        /\ wpc[t] = "stream"

\* C4: under every interleaving of remove_from_queue with the promotion
\* step, no task is taken out of the queue while its status is downloading,
\* and every task a worker is transferring is a member of the queue.
C4_NoRemovalWhileDownloading ==
    [][\A t \in TaskIds :
          (t \in Created /\ InQueue(t) /\ Status(t) = "downloading")
              => \E i \in 1..Len(queue') : queue'[i] = t]_vars

\* C5: while a task is downloading its progress never decreases,
\* also across attempts that are retried.
C5_ProgressNeverDecreases ==
    [][\A t \in TaskIds :
          (t \in Created /\ Status(t) = "downloading"
                          /\ tasks'[t].status = "downloading")
              => tasks'[t].progress >= tasks[t].progress]_vars

\* C6: when the completion sink is invoked for a task all of whose attempts
\* raised, the task is failed, its progress is 0 and its error is the
\* message that carries the attempt count.
C6_SinkSeesAttemptCountMessage ==
    \A t \in Created :
        (out.on_complete = t /\ out.op = "none" /\ Status(t) = "failed")
            => /\ tasks[t].progress = 0
               /\ tasks[t].error.attempts = max_retries

\* the attempt of task t that is running raises in this step
AttemptRaises(t) ==
    /\ wpc[t] \in {"fetch", "stream"}
    /\ out'.raised # "none"
    /\ \/ wpc'[t] = "fetch" /\ attempt'[t] = attempt[t] + 1
       \/ wpc'[t] = "fail"

\* _download_video returns normally for task t in this step
ReturnsNormally(t) == wpc[t] = "mark" /\ wpc'[t] = "done_ok"

\* C7: a dispatched task makes at most 3 attempts, a further attempt starts
\* only after the previous one raised, none follows a successful one; when
\* an attempt succeeds the task ends completed with progress 100 and no
\* error, and it ends failed only when the third attempt raised.
C7_RetryPolicy ==
    [][\A t \in TaskIds :
          /\ attempt'[t] \in 0..(max_retries - 1)
          /\ attempt'[t] > attempt[t]
                => (attempt'[t] = attempt[t] + 1 /\ AttemptRaises(t))
          /\ wpc[t] \in {"mark", "done_ok"} => wpc'[t] # "fetch"
          /\ (t \in Created /\ ReturnsNormally(t))
                => /\ tasks'[t].status = "completed"
                   /\ tasks'[t].progress = ProgressFull
                   /\ tasks'[t].error = NoError
          /\ (wpc[t] = "fail" /\ wpc'[t] = "done_exc")
                => attempt[t] = max_retries - 1]_vars

\* C8: add_to_queue on a record whose destination file exists returns a
\* task that is completed with progress 100, invokes the completion sink
\* once, within the call, makes no Device Client call and does not append
\* to the queue; otherwise it appends one queued task at the end of the
\* queue and invokes no sink.
C8_AddToQueue ==
    [][Len(tasks') = Len(tasks) + 1
          => LET n == Len(tasks')
                 task == tasks'[n]
             IN /\ out'.op = "add" /\ out'.ret = "num" /\ out'.num = n
                /\ out'.api = 0
                /\ \A t \in Created : tasks'[t] = tasks[t]
                /\ IF disk[task.local_path] # "none"
                     THEN /\ task.status = "completed"
                          /\ task.progress = ProgressFull
                          /\ out'.on_complete = n
                          /\ queue' = queue
                     ELSE /\ task.status = "queued"
                          /\ task.progress = 0
                          /\ out'.on_complete = 0
                          /\ queue' = Append(queue, n)]_vars

\* add_to_queue has just returned a task born completed, for a record whose
\* file an earlier transfer created
C8_BornCompletedReturned ==
    \E t \in Created :
        /\ out.op = "add" /\ out.num = t /\ out.on_complete = t
        /\ Status(t) = "completed"
        /\ ~InQueue(t)

\* C9: in every reachable state, the file of every completed task exists
\* at its local path.
C9_CompletedFileExists ==
    \A t \in Created : Status(t) = "completed" => disk[tasks[t].local_path] # "none"

\* one task completed by a worker and one born completed
C9_BothKindsOfCompleted ==
    \E t1, t2 \in Created :
        /\ InQueue(t1) /\ Status(t1) = "completed" /\ wpc[t1] = "idle"
        /\ ~InQueue(t2) /\ Status(t2) = "completed"
        /\ out.op = "none"

\* a call of pause_task(t) / resume_task(t) starts in this step
PauseCalled(t) ==
    /\ clpc = "idle"
    /\ ops' = ops + 1
    /\ \/ clpc' = "pause_write" /\ clarg' = t
       \/ out'.op = "pause" /\ out'.task = t

ResumeCalled(t) ==
    /\ clpc = "idle"
    /\ ops' = ops + 1
    /\ \/ clpc' = "resume_write" /\ clarg' = t
       \/ out'.op = "resume" /\ out'.task = t

\* C10: pause_task only turns queued into paused and resume_task only
\* paused into queued: on any other status they return false and change
\* nothing, and no status other than queued is ever overwritten with
\* paused, nor any other than paused with queued.
C10_PauseResumeTransitions ==
    [][\A t \in TaskIds : t \in Created =>
          /\ (PauseCalled(t) /\ Status(t) # "queued")
                => (out' = RetBool("pause", t, FALSE) /\ tasks' = tasks /\ queue' = queue)
          /\ (ResumeCalled(t) /\ Status(t) # "paused")
                => (out' = RetBool("resume", t, FALSE) /\ tasks' = tasks /\ queue' = queue)
          /\ (tasks'[t].status = "paused" /\ Status(t) # "paused")
                => Status(t) = "queued"
          /\ (tasks'[t].status = "queued" /\ Status(t) # "queued")
                => Status(t) = "paused"]_vars

\* ------------------------------------------------------------------------
\* Properties of the coordinator's promotion order
\* ------------------------------------------------------------------------
\* the coordinator promotes task t in this step
Promoted(t) ==
    /\ cpc = "mark"
    /\ tasks_to_start[midx] = t
    /\ tasks'[t].status = "downloading"

\* the tasks that stand before t in the queue
Preceding(t) ==
    {queue[i] : i \in {i \in 1..Len(queue) : \E k \in (i + 1)..Len(queue) : queue[k] = t}}

\* C11: promotion is FIFO: whenever the coordinator promotes a task to
\* downloading, the task is queued and no task before it in the queue is
\* queued at that moment; a paused task is never promoted.
C11_PromotionIsFifo ==
    [][\A t \in TaskIds :
          (t \in Created /\ Promoted(t))
              => /\ Status(t) = "queued"
                 /\ \A p \in Preceding(t) : Status(p) # "queued"]_vars

\* a step writes the status of the existing task t
StatusWritten(t) == t \in Created /\ tasks'[t].status # tasks[t].status

\* C13: every write to the status of a task and every change of the queue
\* is made while queue_lock is held: status writes happen inside the
\* coordinator's locked block, queue changes inside a locked block of the
\* caller (a single step that needs the lock free).
C13_WritesUnderQueueLock ==
    [][/\ \A t \in TaskIds : StatusWritten(t) => queue_lock = "coord"
       /\ queue' # queue => (/\ queue_lock \in {"free", "caller"}
                             /\ out'.op \in {"add", "remove", "clear"})]_vars

\* C12: after stop() has returned no pool thread is executing a download
\* and no task is left with status downloading.
C12_CleanShutdown ==
    worker_thread = "none" => (Running = {} /\ Downloading = {})

\* C14: two tasks that are being downloaded never have the same local
\* path, and no destination file is open for writing by two pool threads
\* at once, also when the same record is enqueued twice.
C14_NoSharedDestination ==
    \A t1, t2 \in Created :
        (t1 # t2 /\ tasks[t1].local_path = tasks[t2].local_path)
            => /\ ~(Status(t1) = "downloading" /\ Status(t2) = "downloading")
               /\ ~(wpc[t1] = "stream" /\ wpc[t2] = "stream")

\* C15: a local file open or write failure during an attempt makes the
\* task failed with no further attempt, whereas a transport failure before
\* the last attempt starts the next attempt.
C15_DiskFailureNotRetried ==
    [][\A t \in TaskIds :
          /\ (AttemptRaises(t) /\ out'.raised = "disk")
                => (wpc'[t] = "fail" /\ tasks'[t].status = "failed")
          /\ (AttemptRaises(t) /\ out'.raised = "transport" /\ RetryAllowed(attempt[t]))
                => (wpc'[t] = "fetch" /\ attempt'[t] = attempt[t] + 1)]_vars

\* ------------------------------------------------------------------------
\* Properties of the connection manager
\* ------------------------------------------------------------------------
\* the last step sent a status notification
Notified == cout.msg # "none"

\* the prober is handling a lost connection: from the failed probe to the
\* return of the reconnect
Recovering == mpc \in {"lost", "lost_notify", "reconnect", "in_connect"}

\* C16: with auto-reconnect enabled, a failed probe is followed by a
\* notification with connected = false; while the prober recovers, a
\* notification with connected = true is sent only by its connect sequence
\* once that has succeeded, and that success is followed by it; the
\* reconnect sends work_mode_cmd('stop') before it reports the success, and
\* so does every tick whose probe succeeds.
C16_LostThenReconnected ==
    [][/\ mpc = "lost" => mpc' \in {"lost", "lost_notify"}
       /\ (mpc = "lost_notify" /\ mpc' # mpc)
             => /\ cout' = Notify("monitor", "lost", FALSE, cout'.sink_raised)
                /\ auto_reconnect => mpc' = "reconnect"
       /\ (mpc = "reconnect" /\ mpc' # mpc) => kpc'["monitor"] = "begin"
       /\ (Recovering /\ cout'.msg # "none" /\ cout'.flag)
             => (kpc["monitor"] = "notify_connected" /\ is_connected /\ cout'.by = "monitor")
       /\ (kpc["monitor"] = "notify_connected" /\ kpc'["monitor"] # kpc["monitor"])
             => (cout'.msg = "connected" /\ cout'.flag /\ cout'.by = "monitor")
       /\ (kpc["monitor"] = "stop_rec" /\ kpc'["monitor"] # kpc["monitor"])
             => (cout'.by = "monitor" /\ cout'.call = "work_mode_cmd")
       /\ (mpc = "keep" /\ mpc' # mpc)
             => (cout'.by = "monitor" /\ cout'.call = "work_mode_cmd")]_vars

\* the auto-reconnect has just succeeded and reported it
C16_ReconnectReported ==
    /\ auto_reconnect
    /\ cout.by = "monitor" /\ cout.msg = "connected" /\ cout.flag
    /\ mpc = "wait"
    /\ is_connected

\* C17: after disconnect() has returned and until the next connect(), the
\* session is disconnected (is_connected false, no client) and the prober
\* makes no device call and sends no notification with connected = true,
\* also when the join of the prober expired.
C17_StaysDisconnected ==
    disconnected
        => /\ ~is_connected
           /\ cm_api = "none"
           /\ ~(cout.by = "monitor" /\ (cout.call # "none" \/ (Notified /\ cout.flag)))

\* C18: a failed probe takes the session to Lost (is_connected false); from
\* there the prober runs the connect sequence when auto-reconnect is
\* enabled, and otherwise ends, leaving the session disconnected: not
\* connected and without a client.
C18_LostThenReconnectOrEnd ==
    [][/\ (mpc = "test" /\ mpc' # mpc /\ cout'.call = "get_work_state" /\ mpc' # "keep")
             => mpc' = "lost"
       /\ (mpc = "lost" /\ mpc' # mpc) => ~is_connected'
       /\ (mpc = "lost_notify" /\ mpc' # mpc)
             => IF auto_reconnect
                  THEN mpc' = "reconnect"
                  ELSE mpc' = "ended" /\ ~is_connected' /\ cm_api' = "none"
       /\ (mpc = "reconnect" /\ mpc' # mpc)
             => (mpc' = "in_connect" /\ kpc'["monitor"] = "begin")]_vars

\* thread th sends its next notification from position pc of connect()
NotifiesFrom(th, pc) == kpc[th] = pc /\ kpc'[th] # pc

\* C19: every step that changes is_connected takes its thread to the
\* notification of the new value, which is the next thing that thread
\* does; a notification with connected = true is sent only by a connect
\* sequence that has just succeeded; a sink that raises leaves the session
\* state as it is.
C19_ChangesAreNotified ==
    [][/\ (is_connected' /\ ~is_connected)
             => \E th \in ConnThreads :
                    kpc[th] = "set_connected" /\ kpc'[th] = "notify_connected"
       /\ (~is_connected' /\ is_connected)
             => \/ \E th \in ConnThreads :
                       kpc[th] = "fail_reset" /\ kpc'[th] = "fail_notify"
                \/ dpc = "disc_clear" /\ dpc' = "disc_notify"
                \/ mpc = "lost" /\ mpc' = "lost_notify"
       /\ \A th \in ConnThreads :
             /\ NotifiesFrom(th, "notify_connected")
                   => cout'.by = th /\ cout'.msg = "connected" /\ cout'.flag
             /\ NotifiesFrom(th, "fail_notify")
                   => cout'.by = th /\ cout'.msg = "failed" /\ ~cout'.flag
       /\ (dpc = "disc_notify" /\ dpc' # dpc)
             => cout'.by = "caller" /\ cout'.msg = "disconnected" /\ ~cout'.flag
       /\ (mpc = "lost_notify" /\ mpc' # mpc)
             => cout'.by = "monitor" /\ cout'.msg = "lost" /\ ~cout'.flag
       /\ (cout'.msg # "none" /\ cout'.flag)
             => \E th \in ConnThreads :
                    NotifiesFrom(th, "notify_connected") /\ cout'.by = th
       /\ (cout'.msg # "none" /\ cout'.sink_raised)
             => /\ is_connected' = is_connected
                /\ cm_api' = cm_api
                /\ stop_monitoring' = stop_monitoring
                /\ monitor_thread' = monitor_thread
                /\ auto_reconnect' = auto_reconnect]_vars

\* the prober has reported a loss to a sink that raised, after a connect()
\* of the caller had reported its success
C19_LossReportedToRaisingSink ==
    /\ cout = Notify("monitor", "lost", FALSE, TRUE)
    /\ ~is_connected
    /\ cm_api = "client"
    /\ monitor_thread = "thread"

\* clear_completed returns
ClearReturns == clpc = "clear" /\ clpc' = "idle"

\* the comprehension of clear_completed drops the element it is looking at
ClearDrops(t) ==
    /\ clpc = "clear" /\ clpc' = "clear"
    /\ clarg'.i = clarg.i + 1
    /\ queue[clarg.i] = t
    /\ clarg'.kept = clarg.kept

\* C24: clear_completed removes the completed tasks of the queue and only
\* them, keeps the others in their order, returns the number removed and
\* writes no task.  "The completed tasks" are those of one moment of the
\* call: a task is never dropped for a completion that came after the
\* completion of a task the call has already decided to keep.
C24_ClearCompletedExact ==
    [][/\ ClearReturns
             => /\ queue' = SelectSeq(queue, LAMBDA t : ~is_complete(tasks[t])
                                                         \/ t \in Range(queue'))
                /\ \A t \in Range(queue) \ Range(queue') : is_complete(tasks[t])
                /\ out'.op = "clear"
                /\ out'.num = Cardinality(Range(queue) \ Range(queue'))
                /\ tasks' = tasks
       /\ \A t \in Created :
             (ClearDrops(t) /\ t \notin clarg.prev)
               => Range(clarg.kept) \cap clarg.prev = {}]_vars

\* C26: for a task of any status, is_active() holds exactly for queued and
\* downloading, is_complete() exactly for completed, has_failed() exactly
\* for failed; a paused task satisfies none of the three.
C26_StatePredicates ==
    \A t \in Created :
        /\ is_active(tasks[t]) <=> Status(t) \in {"queued", "downloading"}
        /\ is_complete(tasks[t]) <=> Status(t) = "completed"
        /\ has_failed(tasks[t]) <=> Status(t) = "failed"
        /\ Status(t) = "paused"
              => ~is_active(tasks[t]) /\ ~is_complete(tasks[t]) /\ ~has_failed(tasks[t])

\* a paused task, for which none of the three holds, next to a failed one
C26_PausedNextToFailed ==
    \E t1, t2 \in Created :
        /\ Status(t1) = "paused"
        /\ ~is_active(tasks[t1]) /\ ~is_complete(tasks[t1]) /\ ~has_failed(tasks[t1])
        /\ Status(t2) = "failed" /\ has_failed(tasks[t2]) /\ ~is_active(tasks[t2])

\* ------------------------------------------------------------------------
\* Properties of the thumbnail cache
\* ------------------------------------------------------------------------
\* C20: once save_thumbnail(p, b) has returned True, and until a later
\* save, invalidate, clear or cleanup touches p, get_thumbnail(p) returns
\* exactly b and has_thumbnail(p) is True; saves of other paths leave both
\* as they are.
C20_CacheRoundTrip ==
    \A p \in GridPaths :
        last_saved[p].valid
          => /\ has_thumbnail(p)
             /\ get_thumbnail(p) = [found |-> TRUE, data |-> last_saved[p].data]

\* thread w enters invalidate / returns from it
InvalidateEntered(w) == spc[w].pc = "idle" /\ spc'[w].pc = "inv_index"
InvalidateReturned(w) == spc[w].pc = "inv_index" /\ spc'[w].pc = "idle"

\* C21: invalidate(p) returns True exactly when the path had a blob or an
\* index entry when the call was made; when it returns the path has no blob
\* and no index entry; no step of the call changes the blob or the index
\* entry of another path; an invalidate(p) made right after one returned
\* finds nothing to remove.
C21_InvalidateContract ==
    [][\A w \in Savers :
        /\ InvalidateReturned(w)
              => /\ cache_out'.op = "invalidate"
                 /\ cache_out'.ret = spc[w].before
                 /\ ~thumbnail_dir'[get_cache_key(spc[w].file_path)].exists
                 /\ ~metadata'[get_cache_key(spc[w].file_path)].present
        /\ (InvalidateEntered(w) \/ InvalidateReturned(w))
              => \A k \in CacheKeys :
                    (InvalidateEntered(w) => k # get_cache_key(spc'[w].file_path))
                    /\ (InvalidateReturned(w) => k # get_cache_key(spc[w].file_path))
                      => /\ thumbnail_dir'[k] = thumbnail_dir[k]
                         /\ metadata'[k] = metadata[k]
        /\ (/\ InvalidateEntered(w)
            /\ cache_out.op = "invalidate"
            /\ cache_out.file_path = spc'[w].file_path)
              => ~spc'[w].before]_vars

\* thread w has updated the in-memory index and is inside _save_metadata
Persisting(w) == spc[w].pc = "persist"

\* C22: the index is under one mutex: at no time are two threads between
\* their update of the in-memory index and the end of its persisting, and
\* no thread changes the index while another one is there.
C22_IndexUnderOneMutex ==
    [][/\ Cardinality({w \in Savers : Persisting(w)'}) <= 1
       /\ metadata' # metadata
             => \A w \in Savers : Persisting(w) => ~Persisting(w)']_vars

\* ------------------------------------------------------------------------
\* Properties of the thumbnail grid
\* ------------------------------------------------------------------------
\* C2: once a later load_videos has returned, no job of an earlier batch
\* publishes to the display, neither a thumbnail nor an error marker.
C2_NoPublishAfterLaterLoadReturned ==
    gout.kind # "none" => gout.batch >= returned_batch

\* the first two bytes are FF D8
StartsWithSoi(data) == Len(data) >= 2 /\ data[1] = 255 /\ data[2] = 216

\* job j takes the step that follows the fetch (lines 245-251)
ChecksFetched(j) == jobs[j].pc = "post_api" /\ jobs'[j].pc # "post_api"

\* every blob a step puts into the cache starts with FF D8, and a job at
\* its error step publishes the error marker and writes nothing
CacheWritesAreJpeg ==
    /\ \A p \in GridPaths :
          (thumb_cache'[p] # thumb_cache[p] /\ thumb_cache'[p].present)
            => StartsWithSoi(thumb_cache'[p].blob)
    /\ \A j \in JobIds :
          (jobs[j].pc = "show_error" /\ jobs'[j].pc # "show_error")
            => gout' = Publish("error", j) /\ thumb_cache' = thumb_cache

\* C23 as stated: a blob is written to the cache only if it starts with
\* FF D8, and every fetched blob that does not start with FF D8 takes its
\* job to the error marker, with no cache write.
C23_InvalidBlobAlwaysShown ==
    [][/\ CacheWritesAreJpeg
       /\ \A j \in JobIds :
             (ChecksFetched(j) /\ ~StartsWithSoi(jobs[j].data))
               => jobs'[j].pc = "show_error" /\ thumb_cache' = thumb_cache]_vars

\* C23 amended: the same for the jobs whose batch is still the current one
\* when the fetch returns; a job whose batch was replaced meanwhile ends
\* there, publishing nothing and writing nothing.
C23_InvalidBlobShownUnlessOutdated ==
    [][/\ CacheWritesAreJpeg
       /\ \A j \in JobIds :
             (ChecksFetched(j) /\ ~StartsWithSoi(jobs[j].data))
               => /\ thumb_cache' = thumb_cache
                  /\ IF jobs[j].batch = loading_batch_id
                       THEN jobs'[j].pc = "show_error"
                       ELSE jobs'[j].pc = "done" /\ gout' = NoPublish]_vars

\* the error marker has been published for a job that fetched an HTML page
C23_HtmlShownAsError ==
    /\ gout.kind = "error"
    /\ gout.job \in JobIds
    /\ jobs[gout.job].data = Html
    /\ ~thumb_cache[jobs[gout.job].path].present

\* ------------------------------------------------------------------------
\* Properties of VideoFile.from_filename
\* ------------------------------------------------------------------------
\* the filename grammar ^(\d{4})_(\d{2})_(\d{2})_(\d{6})_\d{2}\.(TS|THM|TXT)$:
\* the whole string, nothing before and nothing after
MatchesGrammar(filename) ==
    \E ext \in PatternExtensions :
        /\ Len(filename) = Len(PatternStem) + Len(ext)
        /\ \A i \in 1..Len(PatternStem) : AtomMatches(PatternStem[i], filename[i])
        /\ SubSeq(filename, Len(PatternStem) + 1, Len(filename)) = ext

\* C25: from_filename returns a record only for a path whose whole last
\* segment matches the filename grammar; for every other path it raises
\* ValueError and returns no record.
C25_RecordOnlyForGrammar ==
    fn_out.kind # "none"
      => IF MatchesGrammar(LastSegment(fn_path))
           THEN fn_out.kind \in {"VideoFile", "ValueError"}
           ELSE fn_out = ValueError

\* ------------------------------------------------------------------------
\* Properties of connect()
\* ------------------------------------------------------------------------
\* thread th leaves position pc of connect() in this step
Leaves(th, pc) == kpc[th] = pc /\ kpc'[th] # pc

\* thread th made the device call `call` in this step and it did not fail
CallReturned(th, call) ==
    /\ cout'.by = th
    /\ cout'.call = call
    /\ ~HandshakeFails(call, cout'.answer)

\* C27: connect() sets is_connected only at the end of the sequence
\* discovery found the device, get_device_attr, register_client and
\* get_wifi returned in that order, work_mode_cmd('stop') was attempted; an
\* error text in the registration answer and a failure of the stop call do
\* not keep connect() from setting it; every failure ends in connect()
\* returning False with is_connected False, and a failure after the
\* discovery leaves self.api None.
C27_ConnectSequence ==
    [][\A th \in ConnThreads :
        /\ (is_connected' /\ ~is_connected)
              => \E t \in ConnThreads : Leaves(t, "set_connected")
        /\ kpc'[th] # kpc[th] =>
              /\ kpc'[th] = "notify_connected" => (kpc[th] = "set_connected" /\ is_connected')
              /\ kpc'[th] = "set_connected"
                    => (kpc[th] = "stop_rec" /\ cout'.by = th /\ cout'.call = "work_mode_cmd")
              /\ kpc'[th] = "stop_rec"
                    => (kpc[th] = "get_wifi" /\ CallReturned(th, "get_wifi"))
              /\ kpc'[th] = "get_wifi"
                    => (kpc[th] = "register_client" /\ CallReturned(th, "register_client"))
              /\ kpc'[th] = "register_client"
                    => (kpc[th] = "get_device_attr" /\ CallReturned(th, "get_device_attr"))
              /\ kpc'[th] = "get_device_attr" => kpc[th] = "create"
              /\ kpc'[th] = "create" => kpc[th] = "connecting"
              /\ kpc'[th] = "connecting" => kpc[th] = "discover"
        /\ (Leaves(th, "register_client") /\ cout'.answer = "error")
              => kpc'[th] = "get_wifi"
        /\ Leaves(th, "stop_rec") => kpc'[th] = "set_connected"
        /\ (Leaves(th, "discover") /\ kpc'[th] # "connecting")
              => kpc'[th] = "not_found"
        /\ (\E call \in {"get_device_attr", "register_client", "get_wifi"} :
                 /\ Leaves(th, call)
                 /\ kpc'[th] # AfterCall(call))
              => kpc'[th] = "fail_api"
        /\ Leaves(th, "fail_api") => kpc'[th] = "fail_reset"
        /\ Leaves(th, "fail_reset") => kpc'[th] = "fail_notify"
        /\ (Leaves(th, "not_found") \/ Leaves(th, "fail_notify"))
              => (cout'.by = th /\ cout'.ret = "false" /\ ~is_connected')
        /\ Leaves(th, "fail_notify") => cm_api' = "none"
        /\ (cout'.by = th /\ cout'.ret = "true") => Leaves(th, "notify_connected")
      ]_vars

\* C28: a tick of the prober whose get_work_state probe succeeded sends
\* work_mode_cmd('stop') and only then waits for the next tick; when that
\* call raises, is_connected stays as it was and the prober goes on to the
\* wait of its loop.
C28_TickKeepsRecordingStopped ==
    [][/\ (mpc = "test" /\ mpc' # mpc)
             => /\ mpc' \in {"keep", "lost"}
                /\ mpc' = "keep" => (is_connected /\ cout'.call = "get_work_state")
       /\ (mpc = "keep" /\ mpc' # mpc)
             => /\ cout'.by = "monitor" /\ cout'.call = "work_mode_cmd"
                /\ mpc' = "wait"
                /\ is_connected' = is_connected
                /\ cm_api' = cm_api
       /\ (mpc # "keep" /\ mpc' = "wait" /\ mpc # "wait")
             => mpc \in {"loop", "lost_notify", "in_connect"}
      ]_vars

\* the stop call of a tick has just raised: the session is connected and
\* the prober is at its wait
C28_StopFailedStillConnected ==
    /\ cout.by = "monitor" /\ cout.call = "work_mode_cmd" /\ cout.answer = "raises"
    /\ mpc = "wait"
    /\ is_connected
    /\ cm_api = "client"

\* ------------------------------------------------------------------------
\* Worker slots
\* ------------------------------------------------------------------------
\* the coordinator has marked t and is about to hand it to the pool
BeingSubmitted(t) == cpc \in {"mark", "submit"} /\ t \in Range(tasks_to_start)

\* C29: every task with status downloading is held by one worker slot: the
\* coordinator is handing it to the pool, or a pool thread is executing its
\* _download_video call; this also holds after stop() and start().
C29_DownloadingHoldsSlot ==
    \A t \in Downloading : t \in Running \/ BeingSubmitted(t)

\* the coordinator invokes the completion sink for task t in this step
SinkInvoked(t) == out'.on_complete = t /\ out'.op = "none"

\* the pool thread of task t comes to position pc in this step
JobReaches(t, pc) == wpc[t] # pc /\ wpc'[t] = pc

\* C30: a task marked downloading goes from the coordinator's batch to its
\* futures and leaves them in the one step that invokes the completion sink
\* for it, and the coordinator does not leave _process_queue while a marked
\* task awaits that; the sink is invoked after the job of the task has
\* written completed or failed; a sink that raises changes no status and
\* the coordinator goes on with its loop.
C30_SinkOncePerPromotion ==
    [][\A t \in TaskIds :
        /\ (t \in Created /\ Status(t) # "downloading" /\ tasks'[t].status = "downloading")
              => (cpc = "mark" /\ t \in Range(tasks_to_start))
        /\ (t \in Range(tasks_to_start) /\ t \notin Range(tasks_to_start'))
              => t \in futures'
        /\ (t \in futures' /\ t \notin futures)
              => t \in Range(tasks_to_start)
        /\ (t \in futures /\ t \notin futures') => SinkInvoked(t)
        /\ (CoordinatorEnded' /\ ~CoordinatorEnded)
              => (t \notin Range(tasks_to_start) /\ t \notin futures)
        /\ JobReaches(t, "done_ok") => tasks'[t].status = "completed"
        /\ JobReaches(t, "done_exc") => wpc[t] = "fail"
        /\ JobReaches(t, "fail") => tasks'[t].status = "failed"
        /\ SinkInvoked(t)
              => /\ t \in futures /\ t \notin futures'
                 /\ wpc[t] \in {"done_ok", "done_exc"}
                 /\ cpc' \in {"wait", "loop"}
                 /\ \A u \in Created \ {t} : tasks'[u] = tasks[u]
                 /\ tasks'[t] = IF wpc[t] = "done_exc"
                                  THEN ReapFailed(tasks[t], exc[t]) ELSE tasks[t]
      ]_vars

\* ------------------------------------------------------------------------
\* Checkpoints of the thumbnail jobs
\* ------------------------------------------------------------------------
\* the positions at which a job compares batch_id with loading_batch_id:
\* lines 206, 217, 231, 245 and 275
Checkpoints == {"pending", "cached_check", "pre_api", "post_api", "except"}

\* job j moves from position pc in this step
JobLeaves(j, pc) == jobs[j].pc = pc /\ jobs'[j].pc # pc

\* job j comes to position pc in this step
JobReachesPc(j, pc) == jobs[j].pc # pc /\ jobs'[j].pc = pc

\* C31: a job tests its batch id on entry, before the API call, after the
\* API call and immediately before every publish, of a thumbnail or of the
\* error marker; a job that finds its batch replaced at a checkpoint ends
\* there: no fetch, no cache write and no publish follow.
C31_CheckpointsGuardEveryStep ==
    [][\A j \in JobIds :
        /\ (\E pc \in Checkpoints : JobLeaves(j, pc) /\ Outdated(j))
              => (jobs'[j].pc = "done" /\ gout' = NoPublish /\ thumb_cache' = thumb_cache)
        /\ jobs[j].pc = "done" => jobs'[j].pc = "done"
        /\ JobLeaves(j, "pending") => jobs'[j].pc \in {"done", "cache"}
        /\ JobReachesPc(j, "api") => (jobs[j].pc = "pre_api" /\ ~Outdated(j))
        /\ JobLeaves(j, "api") => jobs'[j].pc \in {"post_api", "except"}
        /\ (\E pc \in {"cached_publish", "publish", "show_error"} : JobReachesPc(j, pc))
              => (jobs[j].pc \in Checkpoints /\ ~Outdated(j))
        /\ (gout'.kind # "none" /\ gout'.job = j)
              => jobs[j].pc \in {"cached_publish", "publish", "show_error"}
      ]_vars

\* ------------------------------------------------------------------------
\* The cached blob of a thumbnail job
\* ------------------------------------------------------------------------
\* what the cache holds for the record of job j
CachedFor(j) == thumb_cache[jobs[j].path]

\* job j holds a blob that it read from the cache and found invalid
HoldsInvalidCached(j) ==
    /\ jobs[j].pc \in {"invalidate", "api_set", "pre_api", "api"}
    /\ jobs[j].data # Empty

\* what C32 says of every job, whatever happens at its batch checks: a
\* thumbnail that is published starts with FF D8, the invalidation removes
\* the entry, and a job that found a valid blob in the cache makes no call
\* of the Device Client
CachedBlobHandled(j) ==
    /\ (gout'.kind = "thumbnail" /\ gout'.job = j) => StartsWithSoi(jobs[j].data)
    /\ JobLeaves(j, "invalidate")
          => (thumb_cache'[jobs[j].path] = NoEntry /\ jobs'[j].pc = "api_set")
    /\ JobLeaves(j, "cached_publish")
          => (gout' = Publish("thumbnail", j) /\ jobs'[j].pc = "done")
    /\ JobReachesPc(j, "api") => ~StartsWithSoi(jobs[j].data)
    /\ JobLeaves(j, "cached_check") => jobs'[j].pc \in {"cached_publish", "done"}

InTick(m) == Pos(m) \in {"test", "lost", "lost_notify", "reconnect", "in_connect", "keep"}
\* a step that starts the thread of prober m
ThreadStarts(m) ==
    IF m = "monitor" THEN mpc \in {"off", "ended"} /\ mpc' = "loop"
                     ELSE mpc2 \in {"off", "ended"} /\ mpc2' = "loop"

\* C33: at most one prober thread is alive at any time, two probers are
\* never inside a tick together, and a thread is started only while no
\* other prober is alive, whatever startMonitoring, stopMonitoring and
\* disconnect calls were made and whether or not the bounded join expired.
C33_OneProberAtATime ==
    /\ [](~(MonitorAlive /\ SecondAlive))
    /\ [](~(InTick("monitor") /\ InTick("monitor2")))
    /\ [][\A m \in Probers :
             ThreadStarts(m) => \A o \in Probers \ {m} : Pos(o) \in {"off", "ended"}]_vars

\* C34: in every reachable state a task carries an error only while its
\* status is failed; queued, downloading, paused and completed tasks have
\* none, a task completed after failed attempts included.
C34_ErrorOnlyWhenFailed ==
    \A t \in TaskIds :
        (t \in Created /\ tasks[t].error # NoError) => tasks[t].status = "failed"

\* C35: the progress of every task lies between 0 and 100; it is at most 95
\* while the worker of the task is inside the chunk loop; and a worker that
\* stands before a second or third attempt, the earlier one having failed,
\* finds the progress reset to 0.
C35_ProgressBounds ==
    \A t \in Created :
        /\ tasks[t].progress >= 0 /\ tasks[t].progress <= ProgressFull
        /\ wpc[t] = "stream" => tasks[t].progress <= ProgressCeiling
        /\ (wpc[t] = "fetch" /\ attempt[t] > 0) => tasks[t].progress = 0

\* the coordinator executes _get_next_tasks
Selects == cpc = "get" /\ cpc' # "get"
\* every call submitted so far has returned and its future has been reaped
\* (result taken, completion sink invoked)
BatchDone == futures = {} /\ \A t \in TaskIds : wpc[t] = "idle"

\* C36: the coordinator runs the selection step only when the batch it
\* submitted before is done, every future reaped and every sink call made; at
\* that step no task in the queue is downloading; and no task is promoted to
\* downloading while a task of the running batch is still unfinished.
C36_BatchBarrier ==
    [][/\ Selects => /\ BatchDone
                     /\ \A t \in Created : InQueue(t) => Status(t) # "downloading"
       /\ \A t \in Created :
             (Status(t) # "downloading" /\ tasks'[t].status = "downloading")
                => BatchDone]_vars

\* C37: on the started manager with fair threads, no task stays queued for
\* ever: a task that is queued in the queue eventually leaves that status
\* (promoted by the coordinator, unless it is paused first) or is removed;
\* and a task that is downloading eventually is completed or failed.
C37_QueueProgress ==
    \A t \in TaskIds :
        /\ (t \in Created /\ InQueue(t) /\ Status(t) = "queued")
              ~> (t \in Created /\ (Status(t) # "queued" \/ ~InQueue(t)))
        /\ (t \in Created /\ Status(t) = "downloading")
              ~> (t \in Created /\ Status(t) \in {"completed", "failed"})

\* the three tasks, the paused one resumed, have all been promoted and have
\* ended, one of them failed, and the coordinator is back at its loop
C37_AllPromotedAndEnded ==
    /\ Len(tasks) = MaxTasks
    /\ \A t \in Created : InQueue(t) /\ Status(t) \in {"completed", "failed"}
    /\ \E t \in Created : Status(t) = "failed"
    /\ cpc = "loop" /\ futures = {}

\* the reconnect attempt the prober made after a loss has failed
ReconnectFailed ==
    /\ auto_reconnect /\ mpc = "wait"
    /\ cout.by = "monitor" /\ cout.ret = "false"

\* C38: with auto-reconnect on and the prober running, a session whose
\* reconnect attempt failed is taken up again by the prober: it eventually
\* starts another connect() or the session is connected again, with no
\* connect() call of the caller.
C38_LostSessionTakenUpAgain ==
    ReconnectFailed ~> (is_connected \/ kpc["monitor"] = "begin")

\* C39: whenever add_to_queue has just returned a task born completed, the
\* file at the task's local path has been written in full by an earlier
\* transfer; a file that a failed attempt left partial, or that a worker
\* is still writing, does not make add_to_queue report completed.
C39_BornCompletedFileIsWhole ==
    \A t \in Created :
        (out.op = "add" /\ out.num = t /\ out.on_complete = t)
            => /\ Status(t) = "completed" /\ tasks[t].progress = ProgressFull
               /\ disk[tasks[t].local_path] = "full"

\* C40: in every reachable state of the ConnectionManager, is_connected
\* implies that self.api is a client: no step of connect(), of disconnect()
\* or of the prober leaves is_connected true with self.api None.
C40_ConnectedHasClient == is_connected => cm_api = "client"

========================================================================
